---- MODULE Spec2Model ----
(***************************************************************************)
(* Port registry and scaffolding pipeline of the gores CLI.                *)
(*                                                                         *)
(* The working directory (used_ports.json, next_available_port.txt and     *)
(* the services/ and pkg/ trees) is the state; one action models one       *)
(* whole invocation of a sub-command (init, generate, list-services).      *)
(* The OS side of the port prober is the set of ports some other process   *)
(* listens on.                                                             *)
(***************************************************************************)
EXTENDS Integers, Sequences, FiniteSets, TLC

VARIABLES
    usedPortsFile,   \* used_ports.json: [exists, wellFormed, used_ports]
    nextPortFile,    \* next_available_port.txt: [exists, text]
    fs,              \* generated tree: [dirs, files]
    listening,       \* ports held by an OS-level listener of another process
    faulted,         \* an I/O or template failure has already been injected
    renderCalls,     \* history: every (Name, Port) handed to a renderer
    last,            \* the last invocation: its request, what it found and
                     \* its outcome
    procs            \* the generate processes that run at the same time

vars == <<usedPortsFile, nextPortFile, fs, listening, faulted, renderCalls, last,
          procs>>

(***************************************************************************)
(* Bounds of the model.                                                    *)
(***************************************************************************)
\* largest number of plan entries rendered before an injected render failure
MaxWritten == 1

\* longest registry handed to WriteUsedPorts in the round trip
MaxRegLen == 2

(***************************************************************************)
(* Program constants.                                                      *)
(***************************************************************************)
maxPort == 65535
minUserPort == 1024
authServicePort == 8080
initNextPort == 8081
\* the floor of auto-assignment as it would be if it were init's cursor
startPort_AfterAuth == initNextPort
startPort == 8080

authServiceName == "auth-service"
CwdBase == "gores"

\* F applied to the value of e, with e evaluated once
With(e, F(_)) == CHOOSE r \in {F(v) : v \in {e}} : TRUE

(***************************************************************************)
(* strconv.Itoa / strconv.Atoi over strings kept as sequences of           *)
(* one-character strings.                                                  *)
(***************************************************************************)
DigitChars == <<"0", "1", "2", "3", "4", "5", "6", "7", "8", "9">>

\* the value of every digit character
DigitVals ==
    [c \in {DigitChars[i] : i \in 1..Len(DigitChars)} |->
        (CHOOSE i \in 1..Len(DigitChars) : DigitChars[i] = c) - 1]

IsDigit(c) == c \in DOMAIN DigitVals

DigitVal(c) == DigitVals[c]

RECURSIVE FormatUint(_)
FormatUint(n) ==
    IF n < Len(DigitChars)
    THEN <<DigitChars[n + 1]>>
    ELSE FormatUint(n \div Len(DigitChars)) \o <<DigitChars[(n % Len(DigitChars)) + 1]>>

Itoa(n) == IF n < 0 THEN <<"-">> \o FormatUint(0 - n) ELSE FormatUint(n)

\* the number written by the first n characters of the digit string s
RECURSIVE ParseUint(_, _)
ParseUint(s, n) ==
    IF n = 0 THEN 0
    ELSE ParseUint(s, n - 1) * Len(DigitChars) + DigitVal(s[n])

\* an optional sign, then at least one digit and nothing but digits
Atoi(s) ==
    LET signed == s # <<>> /\ Head(s) \in {"+", "-"}
        body == IF signed THEN Tail(s) ELSE s
    IN  IF body = <<>> \/ \E i \in 1..Len(body) : ~IsDigit(body[i])
        THEN [ok |-> FALSE, val |-> 0]
        ELSE [ok |-> TRUE,
              val |-> IF signed /\ Head(s) = "-"
                      THEN 0 - ParseUint(body, Len(body))
                      ELSE ParseUint(body, Len(body))]

(***************************************************************************)
(* The port registry (cmd/port_management.go).                             *)
(***************************************************************************)
PortInfo(port, service) == [Port |-> port, Service |-> service]

\* the state of a file that does not exist
NoUsedPortsFile == [exists |-> FALSE, wellFormed |-> FALSE, used_ports |-> <<>>]
NoNextPortFile == [exists |-> FALSE, text |-> <<>>]

\* json.MarshalIndent of UsedPorts: numbers are written as decimal text
MarshalUsedPorts(ports) ==
    [i \in 1..Len(ports) |->
        [port |-> Itoa(ports[i].Port), service |-> ports[i].Service]]

\* the number of a JSON document as it would be read into a signed 16-bit
\* integer
JSONNumber_Int16(t) ==
    With(Atoi(t), LAMBDA p :
        [ok |-> p.ok /\ Head(t) # "+",
         val |-> IF p.val > 32767 THEN p.val - 65536 ELSE p.val])

\* json.Unmarshal into UsedPorts: a number is a run of digits, optionally
\* preceded by a minus sign
JSONNumber(t) ==
    With(Atoi(t), LAMBDA p : [p EXCEPT !.ok = @ /\ Head(t) # "+"])

UnmarshalUsedPorts(doc) ==
    With([i \in 1..Len(doc) |-> JSONNumber(doc[i].port)], LAMBDA num :
        IF \E i \in 1..Len(doc) : ~num[i].ok
        THEN [err |-> "CorruptState", Ports |-> <<>>]
        ELSE [err |-> "",
              Ports |-> [i \in 1..Len(doc) |->
                            PortInfo(num[i].val, doc[i].service)]])

ReadUsedPorts(file) ==
    IF ~file.exists THEN [err |-> "", Ports |-> <<>>]
    ELSE IF ~file.wellFormed THEN [err |-> "CorruptState", Ports |-> <<>>]
    ELSE UnmarshalUsedPorts(file.used_ports)

\* WriteUsedPorts as it would be if it saved only the newest allocation
WriteUsedPorts_OnlyNewest(file, ports, fail) ==
    IF fail
    THEN [err |-> "WriteError", file |-> file]
    ELSE [err |-> "",
          file |-> [exists |-> TRUE, wellFormed |-> TRUE,
                    used_ports |-> MarshalUsedPorts(SubSeq(ports, Len(ports), Len(ports)))]]

\* os.WriteFile replaces the whole file; the write that fails is one refused
\* when the file is opened, which leaves the file as it was
WriteUsedPorts(file, ports, fail) ==
    IF fail
    THEN [err |-> "WriteError", file |-> file]
    ELSE [err |-> "",
          file |-> [exists |-> TRUE, wellFormed |-> TRUE,
                    used_ports |-> MarshalUsedPorts(ports)]]

\* IsPortUsed as it would be if the loop returned after the first entry
IsPortUsed_FirstOnly(used, port) == Len(used) > 0 /\ used[1].Port = port

IsPortUsed(used, port) == \E i \in 1..Len(used) : used[i].Port = port

\* GetNextAvailablePort as it would be without the listener probe
RECURSIVE GetNextAvailablePort_NoProbe(_, _, _)
GetNextAvailablePort_NoProbe(port, used, busy) ==
    IF port > maxPort
    THEN [err |-> "PortSpaceExhausted", port |-> 0, probed |-> {}]
    ELSE IF IsPortUsed(used, port)
    THEN GetNextAvailablePort_NoProbe(port + 1, used, busy)
    ELSE [err |-> "", port |-> port, probed |-> {}]

\* GetNextAvailablePort as it would be if the loop ran one port past maxPort
RECURSIVE GetNextAvailablePort_PastMax(_, _, _)
GetNextAvailablePort_PastMax(port, used, busy) ==
    IF port > maxPort + 1
    THEN [err |-> "PortSpaceExhausted", port |-> 0, probed |-> {}]
    ELSE IF IsPortUsed(used, port)
    THEN GetNextAvailablePort_PastMax(port + 1, used, busy)
    ELSE IF port \in busy
    THEN With(GetNextAvailablePort_PastMax(port + 1, used, busy),
              LAMBDA r : [r EXCEPT !.probed = @ \cup {port}])
    ELSE [err |-> "", port |-> port, probed |-> {port}]

\* The scan of GetNextAvailablePort from candidate port upwards; probed is
\* the set of candidates on which a listener bind was attempted.
RECURSIVE GetNextAvailablePort(_, _, _)
GetNextAvailablePort(port, used, busy) ==
    IF port > maxPort
    THEN [err |-> "PortSpaceExhausted", port |-> 0, probed |-> {}]
    ELSE IF IsPortUsed(used, port)
    THEN GetNextAvailablePort(port + 1, used, busy)
    ELSE IF port \in busy
    THEN With(GetNextAvailablePort(port + 1, used, busy),
              LAMBDA r : [r EXCEPT !.probed = @ \cup {port}])
    ELSE [err |-> "", port |-> port, probed |-> {port}]

\* NextPortStart as it would be if the cursor were trusted below start
NextPortStart_TrustCursor(start, cursorFile) ==
    LET p == Atoi(cursorFile.text)
    IN  IF cursorFile.exists /\ p.ok THEN p.val ELSE start

\* NextPortStart as it would be if a trailing newline were trimmed first
NextPortStart_TrimNewline(start, cursorFile) ==
    LET n == Len(cursorFile.text)
        t == IF n > 0 /\ cursorFile.text[n] = "\n"
             THEN SubSeq(cursorFile.text, 1, n - 1) ELSE cursorFile.text
        p == Atoi(t)
    IN  IF cursorFile.exists /\ p.ok /\ p.val >= start THEN p.val ELSE start

\* the first candidate of the scan: the cursor when it parses and is not
\* below start, start otherwise
NextPortStart(start, cursorFile) ==
    LET p == Atoi(cursorFile.text)
    IN  IF cursorFile.exists /\ p.ok /\ p.val >= start THEN p.val ELSE start

\* the tail of ReadAndIncrementPortWithUsed as it would be if the cursor
\* were written before the registry
RecordAssigned_CursorFirst(found, usedPorts, serviceName, cursorFile, portsFile, flt) ==
    IF flt.at = "cursorwrite"
    THEN [err |-> "WriteError", port |-> 0, cursorFile |-> cursorFile,
          portsFile |-> portsFile, probed |-> found.probed, fired |-> TRUE]
    ELSE With(WriteUsedPorts(portsFile,
                             Append(usedPorts.Ports,
                                    PortInfo(found.port, serviceName)),
                             flt.at = "regwrite"),
              LAMBDA w :
                [err |-> w.err, port |-> IF w.err = "" THEN found.port ELSE 0,
                 cursorFile |-> [exists |-> TRUE, text |-> Itoa(found.port + 1)],
                 portsFile |-> w.file, probed |-> found.probed,
                 fired |-> w.err # ""])

\* the tail of ReadAndIncrementPortWithUsed, once the scan has found a port
RecordAssigned(found, usedPorts, serviceName, cursorFile, portsFile, flt) ==
    With(WriteUsedPorts(portsFile,
                        Append(usedPorts.Ports, PortInfo(found.port, serviceName)),
                        flt.at = "regwrite"),
         LAMBDA w :
            IF w.err # ""
            THEN [err |-> w.err, port |-> 0, cursorFile |-> cursorFile,
                  portsFile |-> portsFile, probed |-> found.probed, fired |-> TRUE]
            ELSE IF flt.at = "cursorwrite"
            THEN [err |-> "WriteError", port |-> 0, cursorFile |-> cursorFile,
                  portsFile |-> w.file, probed |-> found.probed, fired |-> TRUE]
            ELSE [err |-> "", port |-> found.port,
                  cursorFile |-> [exists |-> TRUE, text |-> Itoa(found.port + 1)],
                  portsFile |-> w.file, probed |-> found.probed, fired |-> FALSE])

ReadAndIncrementPortWithUsed(start, serviceName, cursorFile, portsFile, busy, flt) ==
    With(ReadUsedPorts(portsFile), LAMBDA usedPorts :
        IF usedPorts.err # ""
        THEN [err |-> usedPorts.err, port |-> 0, cursorFile |-> cursorFile,
              portsFile |-> portsFile, probed |-> {}, fired |-> FALSE]
        ELSE With(GetNextAvailablePort(NextPortStart(start, cursorFile),
                                       usedPorts.Ports, busy),
                  LAMBDA found :
                    IF found.err # ""
                    THEN [err |-> found.err, port |-> 0, cursorFile |-> cursorFile,
                          portsFile |-> portsFile, probed |-> found.probed,
                          fired |-> FALSE]
                    ELSE RecordAssigned(found, usedPorts, serviceName, cursorFile,
                                        portsFile, flt)))

\* WriteUsedPortForService as it would be without the membership test
WriteUsedPortForService_NoCheck(port, serviceName, portsFile, flt) ==
    With(ReadUsedPorts(portsFile), LAMBDA usedPorts :
        IF usedPorts.err # ""
        THEN [err |-> usedPorts.err, file |-> portsFile, fired |-> FALSE]
        ELSE With(WriteUsedPorts(portsFile,
                                 Append(usedPorts.Ports, PortInfo(port, serviceName)),
                                 flt.at = "regwrite"),
                  LAMBDA w : [err |-> w.err, file |-> w.file,
                              fired |-> flt.at = "regwrite"]))

\* WriteUsedPortForService as it would be if a recorded port were handed to
\* the new service
WriteUsedPortForService_Reassign(port, serviceName, portsFile, flt) ==
    With(ReadUsedPorts(portsFile), LAMBDA usedPorts :
        IF usedPorts.err # ""
        THEN [err |-> usedPorts.err, file |-> portsFile, fired |-> FALSE]
        ELSE With(WriteUsedPorts(portsFile,
                     IF IsPortUsed(usedPorts.Ports, port)
                     THEN [i \in 1..Len(usedPorts.Ports) |->
                              IF usedPorts.Ports[i].Port = port
                              THEN PortInfo(port, serviceName)
                              ELSE usedPorts.Ports[i]]
                     ELSE Append(usedPorts.Ports, PortInfo(port, serviceName)),
                     flt.at = "regwrite"),
                  LAMBDA w : [err |-> w.err, file |-> w.file,
                              fired |-> flt.at = "regwrite"]))

WriteUsedPortForService(port, serviceName, portsFile, flt) ==
    With(ReadUsedPorts(portsFile), LAMBDA usedPorts :
        IF usedPorts.err # ""
        THEN [err |-> usedPorts.err, file |-> portsFile, fired |-> FALSE]
        ELSE IF ~IsPortUsed(usedPorts.Ports, port)
        THEN With(WriteUsedPorts(portsFile,
                                 Append(usedPorts.Ports, PortInfo(port, serviceName)),
                                 flt.at = "regwrite"),
                  LAMBDA w : [err |-> w.err, file |-> w.file,
                              fired |-> flt.at = "regwrite"])
        ELSE [err |-> "", file |-> portsFile, fired |-> FALSE])

(***************************************************************************)
(* The file tree.  A path is the sequence of its components; a file holds  *)
(* the template it was rendered from and the context substituted into it.  *)
(***************************************************************************)
EmptyFS == [dirs |-> {}, files |-> <<>>]

Exists(tree, path) == path \in tree.dirs \/ path \in DOMAIN tree.files

Dir(path) == SubSeq(path, 1, Len(path) - 1)

\* os.MkdirAll: the directory and every missing parent
MkdirAll(tree, path) ==
    [tree EXCEPT !.dirs = @ \cup {SubSeq(path, 1, i) : i \in 1..Len(path)}]

\* os.WriteFile / os.Create followed by a write: replaces the content
WriteFile(tree, path, content) ==
    [tree EXCEPT !.files = (path :> content) @@ @]

\* a file can only be created inside an existing directory
CanCreate(tree, path) == Len(path) = 1 \/ Dir(path) \in tree.dirs

Literal(text) ==
    [tmpl |-> text, Name |-> "", Port |-> <<>>, RootDir |-> "", complete |-> TRUE]

\* text/template Execute with TemplateData{Name, Port, RootDir}
Rendered(tmplPath, name, port) ==
    [tmpl |-> tmplPath, Name |-> name, Port |-> port, RootDir |-> CwdBase,
     complete |-> TRUE]

\* what os.Create leaves behind when Execute fails afterwards
Truncated(content) == [content EXCEPT !.complete = FALSE]

NoFault == [at |-> "none", k |-> 0, written |-> {}, tmpl |-> "", stage |-> ""]

TemplateStages == {"read", "parse", "create", "execute"}

StageError(stage) ==
    CASE stage = "read" -> "TemplateMissing"
      [] stage = "parse" -> "TemplateSyntaxError"
      [] stage = "create" -> "DestinationWriteError"
      [] OTHER -> "TemplateExecError"

(***************************************************************************)
(* createSharedPkg (cmd/service_generation.go).                            *)
(***************************************************************************)
SharedSteps ==
    << [kind |-> "dir",  path |-> <<"pkg">>, tmpl |-> ""],
       [kind |-> "file", path |-> <<"pkg", "go.mod">>, tmpl |-> "module gores/pkg"],
       [kind |-> "file", path |-> <<"pkg", "go.sum">>, tmpl |-> ""],
       [kind |-> "dir",  path |-> <<"pkg", "entities">>, tmpl |-> ""],
       [kind |-> "dir",  path |-> <<"pkg", "database">>, tmpl |-> ""],
       [kind |-> "dir",  path |-> <<"pkg", "database", "postgres">>, tmpl |-> ""],
       [kind |-> "tmpl", path |-> <<"pkg", "database", "postgres", "connection.go">>,
        tmpl |-> "templates/database_connection.tmpl"],
       [kind |-> "dir",  path |-> <<"pkg", "http">>, tmpl |-> ""],
       [kind |-> "dir",  path |-> <<"pkg", "http", "middleware">>, tmpl |-> ""],
       [kind |-> "tmpl", path |-> <<"pkg", "http", "middleware", "middleware.go">>,
        tmpl |-> "templates/middleware.tmpl"] >>

SharedStepDo(tree, st) ==
    CASE st.kind = "dir" -> MkdirAll(tree, st.path)
      [] st.kind = "file" -> WriteFile(tree, st.path, Literal(st.tmpl))
      [] OTHER -> WriteFile(tree, st.path, Rendered(st.tmpl, "", <<>>))

\* the tree a step leaves behind when it fails at the given stage
SharedStepFail(tree, st, stage) ==
    IF st.kind = "tmpl" /\ stage = "execute"
    THEN WriteFile(tree, st.path, Truncated(Rendered(st.tmpl, "", <<>>)))
    ELSE tree

\* every step is skipped when its target exists; the first failing step
\* ends the run and keeps what the earlier steps created
RECURSIVE SharedPkgFrom(_, _, _)
SharedPkgFrom(k, tree, flt) ==
    IF k > Len(SharedSteps) THEN [err |-> "", fs |-> tree, fired |-> FALSE]
    ELSE LET st == SharedSteps[k]
         IN  IF Exists(tree, st.path) THEN SharedPkgFrom(k + 1, tree, flt)
             ELSE IF flt.at = "sharedpkg" /\ flt.k = k
             THEN [err |-> IF st.kind = "tmpl" THEN StageError(flt.stage)
                           ELSE "DestinationWriteError",
                   fs |-> SharedStepFail(tree, st, flt.stage), fired |-> TRUE]
             ELSE With(SharedStepDo(tree, st),
                       LAMBDA next : SharedPkgFrom(k + 1, next, flt))

\* createSharedPkg as it would be if it rendered the two stubs on every run
createSharedPkg_RewritesStubs(tree, flt) ==
    With(SharedPkgFrom(1, tree, flt), LAMBDA r :
        IF r.err # "" THEN r
        ELSE [r EXCEPT !.fs =
                WriteFile(WriteFile(@, SharedSteps[7].path,
                                    Rendered(SharedSteps[7].tmpl, "", <<>>)),
                          SharedSteps[10].path,
                          Rendered(SharedSteps[10].tmpl, "", <<>>))])

createSharedPkg(tree, flt) == SharedPkgFrom(1, tree, flt)

(***************************************************************************)
(* createMicroservice / createAuthMicroservice                             *)
(* (cmd/service_generation.go).                                            *)
(***************************************************************************)
ServicePath(name) == <<"services", name>>

ServiceExists(tree, name) == Exists(tree, ServicePath(name))

\* the default plan as it would be with the entity inside the service tree
DefaultPlan_EntityInService(name) ==
    LET root == ServicePath(name)
    IN  [t \in {"main.tmpl", "router.tmpl", "controller.tmpl", "service.tmpl",
                "go.mod.tmpl", "Dockerfile.tmpl", "entity_pkg.tmpl"} |->
            CASE t = "main.tmpl" -> root \o <<"cmd", "main.go">>
              [] t = "router.tmpl" -> root \o <<"internal", "router.go">>
              [] t = "controller.tmpl" -> root \o <<"internal", "controller.go">>
              [] t = "service.tmpl" -> root \o <<"internal", "service.go">>
              [] t = "go.mod.tmpl" -> root \o <<"go.mod">>
              [] t = "Dockerfile.tmpl" -> root \o <<"Dockerfile">>
              [] OTHER -> root \o <<"internal", name \o ".entity.go">>]

\* the default plan as it would be with one entity file for all services
DefaultPlan_OneEntityFile(name) ==
    LET root == ServicePath(name)
    IN  [t \in {"main.tmpl", "router.tmpl", "controller.tmpl", "service.tmpl",
                "go.mod.tmpl", "Dockerfile.tmpl", "entity_pkg.tmpl"} |->
            CASE t = "main.tmpl" -> root \o <<"cmd", "main.go">>
              [] t = "router.tmpl" -> root \o <<"internal", "router.go">>
              [] t = "controller.tmpl" -> root \o <<"internal", "controller.go">>
              [] t = "service.tmpl" -> root \o <<"internal", "service.go">>
              [] t = "go.mod.tmpl" -> root \o <<"go.mod">>
              [] t = "Dockerfile.tmpl" -> root \o <<"Dockerfile">>
              [] OTHER -> <<"pkg", "entities", "entity.go">>]

\* template name -> destination, default template set
DefaultPlan(name) ==
    LET root == ServicePath(name)
    IN  [t \in {"main.tmpl", "router.tmpl", "controller.tmpl", "service.tmpl",
                "go.mod.tmpl", "Dockerfile.tmpl", "entity_pkg.tmpl"} |->
            CASE t = "main.tmpl" -> root \o <<"cmd", "main.go">>
              [] t = "router.tmpl" -> root \o <<"internal", "router.go">>
              [] t = "controller.tmpl" -> root \o <<"internal", "controller.go">>
              [] t = "service.tmpl" -> root \o <<"internal", "service.go">>
              [] t = "go.mod.tmpl" -> root \o <<"go.mod">>
              [] t = "Dockerfile.tmpl" -> root \o <<"Dockerfile">>
              [] OTHER -> <<"pkg", "entities", name \o ".entity.go">>]

DefaultFolders(name) ==
    << ServicePath(name), ServicePath(name) \o <<"internal">>,
       ServicePath(name) \o <<"cmd">> >>

\* entity_pkg.tmpl always comes from the base template directory
DefaultTemplatePath(templateRoot, t) ==
    IF t = "entity_pkg.tmpl" THEN "templates/" \o t ELSE templateRoot \o t

\* template name -> destination, auth template set; the entity file name is
\* fmt.Sprintf("user.entity.go", name), a format without a verb
AuthPlan(name) ==
    LET root == ServicePath(name)
    IN  [t \in {"main.tmpl", "router.tmpl", "controller.tmpl", "service.tmpl",
                "go.mod.tmpl", "Dockerfile.tmpl", "entity.tmpl"} |->
            CASE t = "main.tmpl" -> root \o <<"src", "cmd", "main.go">>
              [] t = "router.tmpl" -> root \o <<"src", "internal", "router.go">>
              [] t = "controller.tmpl" -> root \o <<"src", "internal", "controller.go">>
              [] t = "service.tmpl" -> root \o <<"src", "internal", "service.go">>
              [] t = "go.mod.tmpl" -> root \o <<"go.mod">>
              [] t = "Dockerfile.tmpl" -> root \o <<"Dockerfile">>
              [] OTHER -> <<"pkg", "entities",
                            "user.entity.go%!(EXTRA string=" \o name \o ")">>]

AuthFolders(name) ==
    << ServicePath(name), ServicePath(name) \o <<"src", "internal">>,
       ServicePath(name) \o <<"src", "cmd">> >>

AuthTemplatePath(t) == "templates/auth/" \o t

\* entries whose destination cannot be created: the parent is missing
Unwritable(tree, plan) == {t \in DOMAIN plan : ~CanCreate(tree, plan[t])}

\* the tree once the entries todo of the plan have been rendered
WriteAll(tree, todo, content) ==
    [tree EXCEPT !.files =
        [p \in {content[t].path : t \in todo} |->
            content[CHOOSE t \in todo : content[t].path = p].data] @@ @]

\* the render loop as it would be if a failure removed what the run wrote
RenderPlan_Rollback(tree, plan, content, flt) ==
    With(Unwritable(tree, plan), LAMBDA bad :
        LET fails == flt.at \in {"render", "natural"}
            valid == /\ fails => /\ flt.tmpl \in DOMAIN plan
                                 /\ flt.written \subseteq
                                        (DOMAIN plan \ (bad \cup {flt.tmpl}))
                     /\ (flt.at = "natural") => flt.tmpl \in bad /\ flt.stage = "create"
                     /\ (flt.at = "render") => flt.tmpl \notin bad
                     /\ ~fails => bad = {}
        IN  IF ~valid
            THEN [err |-> "", fs |-> tree, fired |-> FALSE, valid |-> FALSE]
            ELSE With(WriteAll(tree, IF fails THEN flt.written ELSE DOMAIN plan,
                               content),
                      LAMBDA done :
                        IF ~fails
                        THEN [err |-> "", fs |-> done, fired |-> FALSE, valid |-> TRUE]
                        ELSE [err |-> StageError(flt.stage),
                              fs |-> tree,
                              fired |-> TRUE, valid |-> TRUE]))

\* The render loop ranges over a Go map, so its order is not fixed: a failing
\* run has rendered the entries flt.written, in some order, before the entry
\* flt.tmpl fails at flt.stage.  At "natural" the failure is os.Create on a
\* destination whose parent directory is missing.
RenderPlan(tree, plan, content, flt) ==
    With(Unwritable(tree, plan), LAMBDA bad :
        LET fails == flt.at \in {"render", "natural"}
            valid == /\ fails => /\ flt.tmpl \in DOMAIN plan
                                 /\ flt.written \subseteq
                                        (DOMAIN plan \ (bad \cup {flt.tmpl}))
                     /\ (flt.at = "natural") => flt.tmpl \in bad /\ flt.stage = "create"
                     /\ (flt.at = "render") => flt.tmpl \notin bad
                     /\ ~fails => bad = {}
        IN  IF ~valid
            THEN [err |-> "", fs |-> tree, fired |-> FALSE, valid |-> FALSE]
            ELSE With(WriteAll(tree, IF fails THEN flt.written ELSE DOMAIN plan,
                               content),
                      LAMBDA done :
                        IF ~fails
                        THEN [err |-> "", fs |-> done, fired |-> FALSE, valid |-> TRUE]
                        ELSE [err |-> StageError(flt.stage),
                              fs |-> IF flt.stage = "execute"
                                     THEN WriteFile(done, content[flt.tmpl].path,
                                                    Truncated(content[flt.tmpl].data))
                                     ELSE done,
                              fired |-> TRUE, valid |-> TRUE]))

RECURSIVE MkdirFolders(_, _, _)
MkdirFolders(tree, folders, n) ==
    IF n = 0 THEN tree
    ELSE MkdirAll(MkdirFolders(tree, folders, n - 1), folders[n])

\* the end of the two scaffolders: go.sum is created unless it exists
ScaffoldGoSum(r, goSum, flt) ==
    IF ~r.valid \/ r.err # ""
    THEN [err |-> r.err, fs |-> r.fs, fired |-> r.fired, valid |-> r.valid,
          rendering |-> TRUE]
    ELSE IF Exists(r.fs, goSum)
    THEN [err |-> "", fs |-> r.fs, fired |-> FALSE, valid |-> TRUE,
          rendering |-> TRUE]
    ELSE IF flt.at = "gosum"
    THEN [err |-> "DestinationWriteError", fs |-> r.fs, fired |-> TRUE,
          valid |-> TRUE, rendering |-> TRUE]
    ELSE [err |-> "", fs |-> WriteFile(r.fs, goSum, Literal("")),
          fired |-> FALSE, valid |-> TRUE, rendering |-> TRUE]

\* the body shared by the two scaffolders: folders, render loop, go.sum
Scaffold(tree, folders, plan, content, goSum, flt) ==
    IF flt.at = "mkdir"
    THEN [err |-> "DestinationWriteError",
          fs |-> MkdirFolders(tree, folders, flt.k - 1),
          fired |-> TRUE, valid |-> TRUE, rendering |-> FALSE]
    ELSE With(MkdirFolders(tree, folders, Len(folders)), LAMBDA made :
            With(RenderPlan(made, plan, content, flt),
                 LAMBDA r : ScaffoldGoSum(r, goSum, flt)))

createMicroservice(tree, name, port, templateRoot, flt) ==
    With(DefaultPlan(name), LAMBDA plan :
        With([t \in DOMAIN plan |->
                 [path |-> plan[t],
                  data |-> Rendered(DefaultTemplatePath(templateRoot, t),
                                    name, port)]],
             LAMBDA content :
                Scaffold(tree, DefaultFolders(name), plan, content,
                         ServicePath(name) \o <<"go.sum">>, flt)))

createAuthMicroservice(tree, name, port, flt) ==
    With(AuthPlan(name), LAMBDA plan :
        With([t \in DOMAIN plan |->
                 [path |-> plan[t],
                  data |-> Rendered(AuthTemplatePath(t), name, port)]],
             LAMBDA content :
                Scaffold(tree, AuthFolders(name), plan, content,
                         ServicePath(name) \o <<"go.sum">>, flt)))

(***************************************************************************)
(* The sub-commands (init, generate, list-services).                       *)
(***************************************************************************)
Services == {authServiceName, "svc-a", "svc-b"}

\* the port arguments a request may carry, as typed on the command line
PortArgs ==
    {Itoa(n) : n \in {1023, 8081, 65535, 65536}} \cup {<<>>, <<"8", "0", "8", "x">>}

ArgLists == {<<>>} \cup {<<n>> : n \in Services}
                \cup {<<n, a>> : n \in Services, a \in PortArgs}

\* ports another process may be listening on
BusyCandidates == {8081}

\* the failures the environment may inject into one invocation
WrittenSets(keys) == {W \in SUBSET keys : Cardinality(W) <= MaxWritten}

RenderFaults(at, keys, stages) ==
    {[at |-> at, k |-> 0, written |-> W, tmpl |-> t, stage |-> st] :
        W \in WrittenSets(keys), t \in keys, st \in stages}

NaturalFaults(keys) == RenderFaults("natural", keys, {"create"})

\* shared says whether the run calls createSharedPkg
InjectableFaults(keys, shared) ==
    {[NoFault EXCEPT !.at = a] : a \in {"regwrite", "cursorwrite", "gosum"}}
        \cup {[NoFault EXCEPT !.at = "mkdir", !.k = k] : k \in 1..3}
        \cup (IF shared
              THEN {[NoFault EXCEPT !.at = "sharedpkg", !.k = k, !.stage = st] :
                      k \in 1..Len(SharedSteps), st \in {"create", "execute"}}
              ELSE {})
        \cup RenderFaults("render", keys, TemplateStages)

\* The failures a run may meet, given the outcome o of the run without any:
\* a run that ends early reaches no failure point, and a run must fail at
\* os.Create when a destination's parent directory is missing.  inject says
\* whether the environment may make an I/O or template operation fail.
FaultChoices(o, keys, shared, inject) ==
    (IF o.valid THEN {NoFault} ELSE NaturalFaults(keys))
        \cup (IF inject /\ ~faulted /\ o.err = ""
              THEN InjectableFaults(keys, shared)
              ELSE {})

\* an invocation that returns before it touches anything
Untouched(err) ==
    [err |-> err, port |-> 0, usedPortsFile |-> usedPortsFile,
     nextPortFile |-> nextPortFile, fs |-> fs, probed |-> {},
     fired |-> FALSE, valid |-> TRUE, rendering |-> FALSE]

\* generateCmd.Args as it would be without the upper limit
ArgsError_NoUpperBound(args) ==
    IF Len(args) < 1 THEN "MissingName"
    ELSE IF Len(args) > 1
    THEN LET portStr == args[2]
             p == Atoi(portStr)
         IN  IF Len(portStr) = 0 THEN "InvalidPort"
             ELSE IF ~p.ok THEN "InvalidPort"
             ELSE IF p.val < minUserPort THEN "InvalidPort"
             ELSE ""
    ELSE ""

\* generateCmd.Args
ArgsError(args) ==
    IF Len(args) < 1 THEN "MissingName"
    ELSE IF Len(args) > 1
    THEN LET portStr == args[2]
             p == Atoi(portStr)
         IN  IF Len(portStr) = 0 THEN "InvalidPort"
             ELSE IF ~p.ok THEN "InvalidPort"
             ELSE IF p.val < minUserPort \/ p.val > maxPort THEN "InvalidPort"
             ELSE ""
    ELSE ""

checkInitPrerequisite(portsFile) ==
    IF ~portsFile.exists THEN "NotInitialized" ELSE ""

\* the explicit-port branch as it would be without the registry lookup
ResolveExplicit_NoConflictCheck(serviceName, port, flt) ==
    With(ReadUsedPorts(usedPortsFile), LAMBDA usedPorts :
        IF usedPorts.err # "" THEN Untouched(usedPorts.err)
        ELSE IF port \in listening
        THEN [Untouched("PortUnavailable") EXCEPT !.probed = {port}]
        ELSE With(WriteUsedPortForService(port, serviceName, usedPortsFile, flt),
                  LAMBDA w :
                    [Untouched(w.err) EXCEPT !.probed = {port},
                                             !.usedPortsFile = w.file,
                                             !.port = port, !.fired = w.fired]))

\* the explicit-port branch as it would be without the listener probe
ResolveExplicit_NoProbe(serviceName, port, flt) ==
    With(ReadUsedPorts(usedPortsFile), LAMBDA usedPorts :
        IF usedPorts.err # "" THEN Untouched(usedPorts.err)
        ELSE IF IsPortUsed(usedPorts.Ports, port) THEN Untouched("PortConflict")
        ELSE With(WriteUsedPortForService(port, serviceName, usedPortsFile, flt),
                  LAMBDA w :
                    [Untouched(w.err) EXCEPT !.usedPortsFile = w.file,
                                             !.port = port, !.fired = w.fired]))

\* the explicit-port branch as it would be with the listener probe first
ResolveExplicit_ProbeFirst(serviceName, port, flt) ==
    With(ReadUsedPorts(usedPortsFile), LAMBDA usedPorts :
        IF usedPorts.err # "" THEN Untouched(usedPorts.err)
        ELSE IF port \in listening
        THEN [Untouched("PortUnavailable") EXCEPT !.probed = {port}]
        ELSE IF IsPortUsed(usedPorts.Ports, port)
        THEN [Untouched("PortConflict") EXCEPT !.probed = {port}]
        ELSE With(WriteUsedPortForService(port, serviceName, usedPortsFile, flt),
                  LAMBDA w :
                    [Untouched(w.err) EXCEPT !.probed = {port},
                                             !.usedPortsFile = w.file,
                                             !.port = port, !.fired = w.fired]))

\* the explicit-port branch as it would be if it moved the cursor past the
\* port it recorded
ResolveExplicit_AdvancesCursor(serviceName, port, flt) ==
    With(ReadUsedPorts(usedPortsFile), LAMBDA usedPorts :
        IF usedPorts.err # "" THEN Untouched(usedPorts.err)
        ELSE IF IsPortUsed(usedPorts.Ports, port) THEN Untouched("PortConflict")
        ELSE IF port \in listening
        THEN [Untouched("PortUnavailable") EXCEPT !.probed = {port}]
        ELSE With(WriteUsedPortForService(port, serviceName, usedPortsFile, flt),
                  LAMBDA w :
                    [Untouched(w.err) EXCEPT
                        !.probed = {port}, !.usedPortsFile = w.file,
                        !.port = port, !.fired = w.fired,
                        !.nextPortFile = [exists |-> TRUE,
                                          text |-> Itoa(port + 1)]]))

\* the explicit-port branch of generateCmd.RunE
ResolveExplicit(serviceName, port, flt) ==
    With(ReadUsedPorts(usedPortsFile), LAMBDA usedPorts :
        IF usedPorts.err # "" THEN Untouched(usedPorts.err)
        ELSE IF IsPortUsed(usedPorts.Ports, port) THEN Untouched("PortConflict")
        ELSE IF port \in listening
        THEN [Untouched("PortUnavailable") EXCEPT !.probed = {port}]
        ELSE With(WriteUsedPortForService(port, serviceName, usedPortsFile, flt),
                  LAMBDA w :
                    [Untouched(w.err) EXCEPT !.probed = {port},
                                             !.usedPortsFile = w.file,
                                             !.port = port, !.fired = w.fired]))

\* the auto-assignment branch of generateCmd.RunE
ResolveAuto(serviceName, flt) ==
    With(ReadAndIncrementPortWithUsed(startPort, serviceName, nextPortFile,
                                      usedPortsFile, listening, flt),
         LAMBDA a :
            [Untouched(a.err) EXCEPT !.probed = a.probed, !.port = a.port,
                                     !.usedPortsFile = a.portsFile,
                                     !.nextPortFile = a.cursorFile,
                                     !.fired = a.fired])

\* port resolution of generateCmd.RunE, then the scaffolder
ResolveAndCreate(args, flt) ==
    With(IF Len(args) > 1 /\ args[2] # <<>>
         THEN ResolveExplicit(args[1], Atoi(args[2]).val, flt)
         ELSE ResolveAuto(args[1], flt),
         LAMBDA r :
            IF r.err # "" THEN r
            ELSE With(createMicroservice(fs, args[1], Itoa(r.port), "templates/", flt),
                      LAMBDA m :
                        [r EXCEPT !.err = m.err, !.fs = m.fs, !.fired = m.fired,
                                  !.valid = m.valid, !.rendering = m.rendering]))

\* generateCmd.RunE as it would be without the service-directory check
generateRunE_NoExistsCheck(args, flt) ==
    IF checkInitPrerequisite(usedPortsFile) # ""
    THEN Untouched(checkInitPrerequisite(usedPortsFile))
    ELSE ResolveAndCreate(args, flt)

\* generateCmd.RunE as it would be with the service-directory check first
generateRunE_ExistsFirst(args, flt) ==
    IF ServiceExists(fs, args[1])
    THEN Untouched("ServiceAlreadyExists")
    ELSE IF checkInitPrerequisite(usedPortsFile) # ""
    THEN Untouched(checkInitPrerequisite(usedPortsFile))
    ELSE ResolveAndCreate(args, flt)

generateRunE(args, flt) ==
    IF checkInitPrerequisite(usedPortsFile) # ""
    THEN Untouched(checkInitPrerequisite(usedPortsFile))
    ELSE IF ServiceExists(fs, args[1])
    THEN Untouched("ServiceAlreadyExists")
    ELSE ResolveAndCreate(args, flt)

generateCmd(args, flt) ==
    IF ArgsError(args) # "" THEN Untouched(ArgsError(args))
    ELSE generateRunE(args, flt)

\* initCmd.RunE
initBasePort == 8080

\* the end of initCmd.RunE as it would be if it always reset the cursor
initRecordPorts_ResetsCursor(a, flt) ==
    LET base == [Untouched("") EXCEPT !.port = authServicePort, !.fs = a.fs,
                                      !.rendering = a.rendering]
    IN  With(WriteUsedPortForService(authServicePort, authServiceName,
                                     usedPortsFile, flt),
             LAMBDA w :
                IF w.err # ""
                THEN [base EXCEPT !.err = w.err, !.fired = w.fired]
                ELSE IF flt.at = "cursorwrite"
                THEN [base EXCEPT !.err = "WriteError", !.usedPortsFile = w.file,
                                  !.fired = TRUE]
                ELSE [base EXCEPT !.usedPortsFile = w.file,
                                  !.nextPortFile = [exists |-> TRUE,
                                                    text |-> Itoa(initNextPort)]])

\* the end of initCmd.RunE: the registry entry of auth-service and the cursor;
\* a is the outcome of the scaffolding before it
initRecordPorts(a, flt) ==
    LET p == Atoi(nextPortFile.text)
        currentNextPort == IF nextPortFile.exists /\ p.ok THEN p.val
                           ELSE initBasePort
        base == [Untouched("") EXCEPT !.port = authServicePort, !.fs = a.fs,
                                      !.rendering = a.rendering]
    IN  With(WriteUsedPortForService(authServicePort, authServiceName,
                                     usedPortsFile, flt),
             LAMBDA w :
                IF w.err # ""
                THEN [base EXCEPT !.err = w.err, !.fired = w.fired]
                ELSE IF currentNextPort > initBasePort
                THEN [base EXCEPT !.usedPortsFile = w.file]
                ELSE IF flt.at = "cursorwrite"
                THEN [base EXCEPT !.err = "WriteError", !.usedPortsFile = w.file,
                                  !.fired = TRUE]
                ELSE [base EXCEPT !.usedPortsFile = w.file,
                                  !.nextPortFile = [exists |-> TRUE,
                                                    text |-> Itoa(initNextPort)]])

initRunE(flt) ==
    With(createSharedPkg(fs, flt), LAMBDA shared :
        IF shared.err # ""
        THEN [Untouched(shared.err) EXCEPT !.port = authServicePort,
                                           !.fs = shared.fs, !.fired = TRUE]
        ELSE With(IF ServiceExists(shared.fs, authServiceName)
                  THEN [err |-> "", fs |-> shared.fs, fired |-> FALSE,
                        valid |-> TRUE, rendering |-> FALSE]
                  ELSE createAuthMicroservice(shared.fs, authServiceName,
                                              Itoa(authServicePort), flt),
                  LAMBDA a :
                    IF ~a.valid \/ a.err # ""
                    THEN [Untouched(a.err) EXCEPT !.port = authServicePort,
                                                  !.fs = a.fs, !.fired = a.fired,
                                                  !.valid = a.valid,
                                                  !.rendering = a.rendering]
                    ELSE initRecordPorts(a, flt)))

\* an injected failure is taken once per run and only where it takes effect
FaultAllowed(o, flt) ==
    /\ o.valid
    /\ flt.at \in {"none", "natural"} \/ (~faulted /\ o.fired)
    /\ flt.at = "natural" => o.fired

Commit(o, flt, name, text) ==
    /\ usedPortsFile' = o.usedPortsFile
    /\ nextPortFile' = o.nextPortFile
    /\ fs' = o.fs
    /\ faulted' = (faulted \/ flt.at \notin {"none", "natural"})
    /\ renderCalls' = IF o.rendering
                      THEN renderCalls \cup {[Name |-> name, Port |-> text]}
                      ELSE renderCalls
    /\ UNCHANGED <<listening, procs>>

NoList == <<>>

\* one run of init; run is the outcome of initCmd.RunE under flt
InitCmd(flt, run) ==
    \E o \in {run} :
        /\ FaultAllowed(o, flt)
        /\ Commit(o, flt, authServiceName, Itoa(authServicePort))
        /\ last' = [cmd |-> "init", name |-> authServiceName, explicit |-> FALSE,
                    portArg |-> <<>>, err |-> o.err, port |-> o.port,
                    probed |-> o.probed, listed |-> NoList, flt |-> flt,
                    cursor |-> nextPortFile]

\* one run of generate; run is the outcome of generateCmd under flt
GenerateCmd(args, flt, run) ==
    \E o \in {run} :
        /\ FaultAllowed(o, flt)
        /\ Commit(o, flt, IF args = <<>> THEN "" ELSE args[1], Itoa(o.port))
        /\ last' = [cmd |-> "generate",
                    name |-> IF args = <<>> THEN "" ELSE args[1],
                    explicit |-> Len(args) > 1,
                    portArg |-> IF Len(args) > 1 THEN args[2] ELSE <<>>,
                    err |-> o.err, port |-> o.port, probed |-> o.probed,
                    listed |-> NoList, flt |-> flt,
                    cursor |-> nextPortFile]

\* listServicesCmd.Run only reads the registry
ListServicesCmd ==
    \E usedPorts \in {ReadUsedPorts(usedPortsFile)} :
        /\ last' = [cmd |-> "list-services", name |-> "", explicit |-> FALSE,
                    portArg |-> <<>>,
                    err |-> IF checkInitPrerequisite(usedPortsFile) # ""
                            THEN checkInitPrerequisite(usedPortsFile)
                            ELSE usedPorts.err,
                    port |-> 0, probed |-> {},
                    listed |-> IF checkInitPrerequisite(usedPortsFile) # ""
                               THEN NoList ELSE usedPorts.Ports,
                    flt |-> NoFault, cursor |-> nextPortFile]
        /\ UNCHANGED <<usedPortsFile, nextPortFile, fs, listening, faulted,
                       renderCalls, procs>>

\* another process starts or stops listening on a port
OsChange(p) ==
    /\ listening' = IF p \in listening THEN listening \ {p}
                    ELSE listening \cup {p}
    /\ UNCHANGED <<usedPortsFile, nextPortFile, fs, faulted, renderCalls, last,
                   procs>>

\* a process that has not been started
IdleProc ==
    [pc |-> "idle", name |-> "", nextPort |-> 0, used |-> <<>>, port |-> 0,
     err |-> "", order |-> 0, examined |-> 0, probes |-> <<>>]

Procs == {1, 2}

NoProcs == [p \in Procs |-> IdleProc]

NoInvocation ==
    [cmd |-> "none", name |-> "", explicit |-> FALSE, portArg |-> <<>>,
     err |-> "", port |-> 0, probed |-> {}, listed |-> NoList,
     flt |-> NoFault, cursor |-> NoNextPortFile]

\* the empty working directory
Init == /\ usedPortsFile = NoUsedPortsFile
        /\ nextPortFile = NoNextPortFile
        /\ fs = EmptyFS
        /\ listening \in SUBSET BusyCandidates
        /\ faulted = FALSE
        /\ renderCalls = {}
        /\ last = NoInvocation
        /\ procs = NoProcs

InitStep(inject) ==
    \E o \in {initRunE(NoFault)} :
        \E flt \in FaultChoices(o, DOMAIN AuthPlan(authServiceName), TRUE, inject) :
            InitCmd(flt, IF flt = NoFault THEN o ELSE initRunE(flt))

GenerateStep(argLists, inject) ==
    \E args \in argLists :
        \E o \in {generateCmd(args, NoFault)} :
            \E flt \in FaultChoices(o, DOMAIN DefaultPlan(""), FALSE, inject) :
                GenerateCmd(args, flt,
                            IF flt = NoFault THEN o ELSE generateCmd(args, flt))

\* sequential invocations in which every file and template operation works
Next == \/ InitStep(FALSE)
        \/ GenerateStep(ArgLists, FALSE)
        \/ ListServicesCmd
        \/ \E p \in BusyCandidates : OsChange(p)

Spec == Init /\ [][Next]_vars

\* sequential invocations in which one file or template operation may fail
FaultArgLists ==
    {<<n>> : n \in Services} \cup {<<n, Itoa(8081)>> : n \in Services \ {authServiceName}}

NextFaults == \/ InitStep(TRUE)
              \/ GenerateStep(FaultArgLists, TRUE)
              \/ ListServicesCmd

SpecFaults == Init /\ [][NextFaults]_vars

\* a working directory found in any state: the registry and the cursor file
\* were left by earlier runs or edited by the operator
SharedOnlyFS == createSharedPkg(EmptyFS, NoFault).fs

UsedPortsDoc(ports) ==
    [exists |-> TRUE, wellFormed |-> TRUE, used_ports |-> MarshalUsedPorts(ports)]

AnyUsedPortsFiles ==
    {NoUsedPortsFile,
     [exists |-> TRUE, wellFormed |-> FALSE, used_ports |-> <<>>],
     UsedPortsDoc(<<>>),
     UsedPortsDoc(<<PortInfo(8080, "svc-a")>>),
     UsedPortsDoc(<<PortInfo(8080, "svc-a"), PortInfo(8081, "svc-b")>>),
     UsedPortsDoc(<<PortInfo(65535, "svc-a")>>)}

AnyNextPortFiles ==
    {NoNextPortFile}
        \cup {[exists |-> TRUE, text |-> t] :
                t \in {Itoa(n) : n \in {80, 8080, 65535, 65536}}
                        \cup {<<"8", "0", "8", "1", "\n">>}}

InitAny == /\ usedPortsFile \in AnyUsedPortsFiles
           /\ nextPortFile \in AnyNextPortFiles
           /\ fs = SharedOnlyFS
           /\ listening \in SUBSET BusyCandidates
           /\ faulted = FALSE
           /\ renderCalls = {}
           /\ last = NoInvocation
           /\ procs = NoProcs

AnyArgLists ==
    {<<"svc-a">>, <<"svc-b">>, <<"svc-a", Itoa(65535)>>, <<"svc-b", Itoa(8081)>>}

NextAny == \/ InitStep(FALSE)
           \/ GenerateStep(AnyArgLists, FALSE)
           \/ ListServicesCmd
           \/ \E p \in BusyCandidates : OsChange(p)

SpecAny == InitAny /\ [][NextAny]_vars

\* an initialized working directory whose pkg/ tree has been removed
InitNoPkg == /\ usedPortsFile \in {UsedPortsDoc(<<>>),
                                  UsedPortsDoc(<<PortInfo(8080, "svc-a")>>)}
             /\ nextPortFile \in {NoNextPortFile,
                                 [exists |-> TRUE, text |-> Itoa(8080)]}
             /\ fs = EmptyFS
             /\ listening \in SUBSET BusyCandidates
             /\ faulted = FALSE
             /\ renderCalls = {}
             /\ last = NoInvocation
             /\ procs = NoProcs

SpecNoPkg == InitNoPkg /\ [][NextAny]_vars

(***************************************************************************)
(* Two generate invocations without a port argument that run at the same   *)
(* time in an initialized working directory.  Each file operation of       *)
(* generateCmd.RunE and ReadAndIncrementPortWithUsed is one step; a file   *)
(* is read or written whole.  No listener starts or stops during the runs. *)
(***************************************************************************)
RaceNames == {"svc-a", "svc-b"}

\* the working directory a run of init leaves
InitializedFS ==
    WriteFile(createAuthMicroservice(SharedOnlyFS, authServiceName,
                                     Itoa(authServicePort), NoFault).fs,
              ServicePath(authServiceName) \o <<"go.sum">>, Literal(""))

InitRace == /\ usedPortsFile = UsedPortsDoc(<<PortInfo(authServicePort,
                                                       authServiceName)>>)
            /\ nextPortFile = [exists |-> TRUE, text |-> Itoa(initNextPort)]
            /\ fs = InitializedFS
            /\ listening \in SUBSET BusyCandidates
            /\ faulted = FALSE
            /\ renderCalls = {}
            /\ last = NoInvocation
            /\ procs = NoProcs

RaceUnchanged == UNCHANGED <<listening, faulted, last>>

\* generateCmd.RunE up to the port resolution: the prerequisite check and
\* the service-directory check
RaceStart(p, name) ==
    /\ procs[p].pc = "idle"
    /\ procs' = [procs EXCEPT ![p] =
                    IF checkInitPrerequisite(usedPortsFile) # ""
                    THEN [@ EXCEPT !.pc = "done", !.name = name,
                                   !.err = checkInitPrerequisite(usedPortsFile)]
                    ELSE IF ServiceExists(fs, name)
                    THEN [@ EXCEPT !.pc = "done", !.name = name,
                                   !.err = "ServiceAlreadyExists"]
                    ELSE [@ EXCEPT !.pc = "readCursor", !.name = name]]
    /\ UNCHANGED <<usedPortsFile, nextPortFile, fs, renderCalls>>
    /\ RaceUnchanged

\* os.ReadFile(nextPortFile) and strconv.Atoi
RaceReadCursor(p) ==
    /\ procs[p].pc = "readCursor"
    /\ procs' = [procs EXCEPT ![p] =
                    [@ EXCEPT !.pc = "readUsedPorts",
                              !.nextPort = NextPortStart(startPort, nextPortFile)]]
    /\ UNCHANGED <<usedPortsFile, nextPortFile, fs, renderCalls>>
    /\ RaceUnchanged

\* ReadUsedPorts(usedPortsFile): the snapshot the process works on
RaceReadUsedPorts(p) ==
    /\ procs[p].pc = "readUsedPorts"
    /\ \E usedPorts \in {ReadUsedPorts(usedPortsFile)} :
          procs' = [procs EXCEPT ![p] =
                      IF usedPorts.err # ""
                      THEN [@ EXCEPT !.pc = "done", !.err = usedPorts.err]
                      ELSE [@ EXCEPT !.pc = "scan", !.used = usedPorts.Ports]]
    /\ UNCHANGED <<usedPortsFile, nextPortFile, fs, renderCalls>>
    /\ RaceUnchanged

\* GetNextAvailablePort(nextPort, usedPorts)
RaceScan(p) ==
    /\ procs[p].pc = "scan"
    /\ \E found \in {GetNextAvailablePort(procs[p].nextPort, procs[p].used,
                                          listening)} :
          procs' = [procs EXCEPT ![p] =
                      IF found.err # ""
                      THEN [@ EXCEPT !.pc = "done", !.err = found.err]
                      ELSE [@ EXCEPT !.pc = "writeUsedPorts",
                                     !.port = found.port]]
    /\ UNCHANGED <<usedPortsFile, nextPortFile, fs, renderCalls>>
    /\ RaceUnchanged

\* the record as it would be if the registry were loaded again at the write
RaceRecord_Reload(used, port, serviceName, portsFile) ==
    WriteUsedPorts(portsFile,
                   Append(ReadUsedPorts(portsFile).Ports,
                          PortInfo(port, serviceName)),
                   FALSE).file

\* usedPorts.Ports = append(usedPorts.Ports, ...) and WriteUsedPorts: the
\* snapshot plus the new allocation replaces the file
RaceRecord(used, port, serviceName, portsFile) ==
    WriteUsedPorts(portsFile, Append(used, PortInfo(port, serviceName)),
                   FALSE).file

RaceWriteUsedPorts(p) ==
    /\ procs[p].pc = "writeUsedPorts"
    /\ usedPortsFile' = RaceRecord(procs[p].used, procs[p].port, procs[p].name,
                                   usedPortsFile)
    /\ procs' = [procs EXCEPT ![p] =
                    [@ EXCEPT !.pc = "writeCursor",
                              !.order = 1 + Cardinality({q \in Procs :
                                                          procs[q].order > 0})]]
    /\ UNCHANGED <<nextPortFile, fs, renderCalls>>
    /\ RaceUnchanged

\* os.WriteFile(nextPortFile, strconv.Itoa(port+1))
RaceWriteCursor(p) ==
    /\ procs[p].pc = "writeCursor"
    /\ nextPortFile' = [exists |-> TRUE, text |-> Itoa(procs[p].port + 1)]
    /\ procs' = [procs EXCEPT ![p] = [@ EXCEPT !.pc = "render"]]
    /\ UNCHANGED <<usedPortsFile, fs, renderCalls>>
    /\ RaceUnchanged

\* createMicroservice(serviceName, strconv.Itoa(port), "templates/")
RaceRender(p) ==
    /\ procs[p].pc = "render"
    /\ \E m \in {createMicroservice(fs, procs[p].name, Itoa(procs[p].port),
                                     "templates/", NoFault)} :
          /\ m.valid
          /\ fs' = m.fs
          /\ procs' = [procs EXCEPT ![p] = [@ EXCEPT !.pc = "done", !.err = m.err]]
    /\ renderCalls' = renderCalls \cup {[Name |-> procs[p].name,
                                          Port |-> Itoa(procs[p].port)]}
    /\ UNCHANGED <<usedPortsFile, nextPortFile>>
    /\ RaceUnchanged

NextRace == \E p \in Procs :
               \/ \E name \in RaceNames : RaceStart(p, name)
               \/ RaceReadCursor(p)
               \/ RaceReadUsedPorts(p)
               \/ RaceScan(p)
               \/ RaceWriteUsedPorts(p)
               \/ RaceWriteCursor(p)
               \/ RaceRender(p)

SpecRace == InitRace /\ [][NextRace]_vars

(***************************************************************************)
(* WriteUsedPorts followed by ReadUsedPorts: process 1 persists a registry *)
(* it holds in memory, process 2 loads the file.  Service names are text,  *)
(* which encoding/json writes and reads back unchanged.                    *)
(***************************************************************************)
RTAllocations == {PortInfo(port, service) : port \in {80, 65535},
                                            service \in {"svc-a", "svc-b"}}

RTRegistries == UNION {[1..n -> RTAllocations] : n \in 0..MaxRegLen}

\* WriteUsedPorts(filename, data)
RTSave(p, data) ==
    /\ usedPortsFile' = WriteUsedPorts(usedPortsFile, data, FALSE).file
    /\ procs' = [procs EXCEPT ![p] = [@ EXCEPT !.pc = "saved", !.used = data]]
    /\ UNCHANGED <<nextPortFile, fs, listening, faulted, renderCalls, last>>

\* ReadUsedPorts(filename)
RTLoad(p) ==
    /\ \E data \in {ReadUsedPorts(usedPortsFile)} :
          procs' = [procs EXCEPT ![p] = [@ EXCEPT !.pc = "loaded",
                                                  !.used = data.Ports,
                                                  !.err = data.err]]
    /\ UNCHANGED <<usedPortsFile, nextPortFile, fs, listening, faulted,
                   renderCalls, last>>

NextRT == \/ \E data \in RTRegistries : RTSave(1, data)
          \/ RTLoad(2)

SpecRT == Init /\ [][NextRT]_vars

(***************************************************************************)
(* One auto-assigning run with the loop of GetNextAvailablePort taken one  *)
(* iteration at a time, started near the end of the port range.            *)
(***************************************************************************)
ScanBusy == {65533, 65535}

ScanUsedPortsFiles ==
    {UsedPortsDoc(<<>>),
     UsedPortsDoc(<<PortInfo(65535, "svc-a")>>),
     UsedPortsDoc(<<PortInfo(65534, "svc-b")>>)}

ScanNextPortFiles ==
    {NoNextPortFile}
        \cup {[exists |-> TRUE, text |-> Itoa(n)] :
                n \in {65533, 65534, 65535, 65536}}

InitScan == /\ usedPortsFile \in ScanUsedPortsFiles
            /\ nextPortFile \in ScanNextPortFiles
            /\ fs = SharedOnlyFS
            /\ listening \in SUBSET ScanBusy
            /\ faulted = FALSE
            /\ renderCalls = {}
            /\ last = NoInvocation
            /\ procs = NoProcs

\* ReadAndIncrementPortWithUsed up to the call of GetNextAvailablePort
ScanBegin(p, name) ==
    /\ procs[p].pc = "idle"
    /\ \E usedPorts \in {ReadUsedPorts(usedPortsFile)} :
          procs' = [procs EXCEPT ![p] =
                      IF usedPorts.err # ""
                      THEN [@ EXCEPT !.pc = "done", !.name = name,
                                     !.err = usedPorts.err]
                      ELSE [@ EXCEPT !.pc = "scan", !.name = name,
                                     !.nextPort = NextPortStart(startPort,
                                                                nextPortFile),
                                     !.port = NextPortStart(startPort,
                                                            nextPortFile),
                                     !.used = usedPorts.Ports]]
    /\ UNCHANGED <<usedPortsFile, nextPortFile, fs, renderCalls>>
    /\ RaceUnchanged

\* the loop as it would be if a failed bind were tried again
ScanIteration_Retry(pr, busy) ==
    IF pr.port > maxPort
    THEN [pr EXCEPT !.pc = "done", !.err = "PortSpaceExhausted"]
    ELSE IF IsPortUsed(pr.used, pr.port)
    THEN [pr EXCEPT !.port = @ + 1, !.examined = @ + 1]
    ELSE IF pr.port \in busy
    THEN [pr EXCEPT !.probes = Append(@, pr.port)]
    ELSE [pr EXCEPT !.pc = "found", !.examined = @ + 1,
                    !.probes = Append(@, pr.port)]

\* one pass through `for port := start; port <= maxPort; port++`
ScanIteration(pr, busy) ==
    IF pr.port > maxPort
    THEN [pr EXCEPT !.pc = "done", !.err = "PortSpaceExhausted"]
    ELSE IF IsPortUsed(pr.used, pr.port)
    THEN [pr EXCEPT !.port = @ + 1, !.examined = @ + 1]
    ELSE IF pr.port \in busy
    THEN [pr EXCEPT !.port = @ + 1, !.examined = @ + 1,
                    !.probes = Append(@, pr.port)]
    ELSE [pr EXCEPT !.pc = "found", !.examined = @ + 1,
                    !.probes = Append(@, pr.port)]

ScanCandidate(p) ==
    /\ procs[p].pc = "scan"
    /\ procs' = [procs EXCEPT ![p] = ScanIteration(@, listening)]
    /\ UNCHANGED <<usedPortsFile, nextPortFile, fs, renderCalls>>
    /\ RaceUnchanged

\* the rest of ReadAndIncrementPortWithUsed: the two writes
ScanRecord(p) ==
    /\ procs[p].pc = "found"
    /\ usedPortsFile' = RaceRecord(procs[p].used, procs[p].port, procs[p].name,
                                   usedPortsFile)
    /\ nextPortFile' = [exists |-> TRUE, text |-> Itoa(procs[p].port + 1)]
    /\ procs' = [procs EXCEPT ![p] = [@ EXCEPT !.pc = "done"]]
    /\ UNCHANGED <<fs, renderCalls>>
    /\ RaceUnchanged

NextScan == \/ \E name \in RaceNames : ScanBegin(1, name)
            \/ ScanCandidate(1)
            \/ ScanRecord(1)

\* a run that has been started keeps running
SpecScan == InitScan /\ [][NextScan]_vars /\ WF_vars(NextScan)

(***************************************************************************)
(* init and generate invocations, with or without a port argument, that    *)
(* run at the same time.  Each file operation of initCmd.RunE,             *)
(* generateCmd.RunE, WriteUsedPortForService and                           *)
(* ReadAndIncrementPortWithUsed is one step; a file is read or written     *)
(* whole.  The runs start in the empty or in an initialized directory.     *)
(***************************************************************************)
ConcPorts == {8081}

InitConc == Init \/ InitRace

\* generateCmd.RunE with a port argument up to the conflict check
ConcStartExplicit(p, name, port) ==
    /\ procs[p].pc = "idle"
    /\ procs' = [procs EXCEPT ![p] =
                    IF checkInitPrerequisite(usedPortsFile) # ""
                    THEN [@ EXCEPT !.pc = "done", !.name = name,
                                   !.err = checkInitPrerequisite(usedPortsFile)]
                    ELSE IF ServiceExists(fs, name)
                    THEN [@ EXCEPT !.pc = "done", !.name = name,
                                   !.err = "ServiceAlreadyExists"]
                    ELSE [@ EXCEPT !.pc = "conflictCheck", !.name = name,
                                   !.port = port]]
    /\ UNCHANGED <<usedPortsFile, nextPortFile, fs, renderCalls>>
    /\ RaceUnchanged

\* ReadUsedPorts and IsPortUsed in generateCmd.RunE
ConcConflictCheck(p) ==
    /\ procs[p].pc = "conflictCheck"
    /\ \E usedPorts \in {ReadUsedPorts(usedPortsFile)} :
          procs' = [procs EXCEPT ![p] =
                      IF usedPorts.err # ""
                      THEN [@ EXCEPT !.pc = "done", !.err = usedPorts.err]
                      ELSE IF IsPortUsed(usedPorts.Ports, procs[p].port)
                      THEN [@ EXCEPT !.pc = "done", !.err = "PortConflict"]
                      ELSE [@ EXCEPT !.pc = "probe"]]
    /\ UNCHANGED <<usedPortsFile, nextPortFile, fs, renderCalls>>
    /\ RaceUnchanged

\* net.Listen on the requested port
ConcProbe(p) ==
    /\ procs[p].pc = "probe"
    /\ procs' = [procs EXCEPT ![p] =
                    IF procs[p].port \in listening
                    THEN [@ EXCEPT !.pc = "done", !.err = "PortUnavailable"]
                    ELSE [@ EXCEPT !.pc = "recordRead"]]
    /\ UNCHANGED <<usedPortsFile, nextPortFile, fs, renderCalls>>
    /\ RaceUnchanged

\* the load and the test in WriteUsedPortForService, as they would be if
\* the record step trusted the caller's conflict check
ConcLoadForRecord_NoCheck(pr, file, write, after) ==
    With(ReadUsedPorts(file), LAMBDA usedPorts :
        IF usedPorts.err # ""
        THEN [pr EXCEPT !.pc = "done", !.err = usedPorts.err]
        ELSE [pr EXCEPT !.pc = write, !.used = usedPorts.Ports])

\* the load and the test in WriteUsedPortForService, as they would be if a
\* port found allocated were reported as a conflict
ConcLoadForRecord_Conflict(pr, file, write, after) ==
    With(ReadUsedPorts(file), LAMBDA usedPorts :
        IF usedPorts.err # ""
        THEN [pr EXCEPT !.pc = "done", !.err = usedPorts.err]
        ELSE IF IsPortUsed(usedPorts.Ports, pr.port)
        THEN [pr EXCEPT !.pc = "done", !.err = "PortConflict",
                        !.used = usedPorts.Ports]
        ELSE [pr EXCEPT !.pc = write, !.used = usedPorts.Ports])

\* the load and the test in WriteUsedPortForService: write is the position
\* of its WriteUsedPorts, after the position of the caller when it returns
ConcLoadForRecord(pr, file, write, after) ==
    With(ReadUsedPorts(file), LAMBDA usedPorts :
        IF usedPorts.err # ""
        THEN [pr EXCEPT !.pc = "done", !.err = usedPorts.err]
        ELSE IF IsPortUsed(usedPorts.Ports, pr.port)
        THEN [pr EXCEPT !.pc = after, !.used = usedPorts.Ports]
        ELSE [pr EXCEPT !.pc = write, !.used = usedPorts.Ports])

ConcRecordRead(p) ==
    /\ procs[p].pc = "recordRead"
    /\ procs' = [procs EXCEPT ![p] =
                    ConcLoadForRecord(procs[p], usedPortsFile, "recordWrite",
                                      "render")]
    /\ UNCHANGED <<usedPortsFile, nextPortFile, fs, renderCalls>>
    /\ RaceUnchanged

\* the append and WriteUsedPorts in WriteUsedPortForService
ConcRecordWrite(p) ==
    /\ procs[p].pc = "recordWrite"
    /\ usedPortsFile' = RaceRecord(procs[p].used, procs[p].port, procs[p].name,
                                   usedPortsFile)
    /\ procs' = [procs EXCEPT ![p] = [@ EXCEPT !.pc = "render"]]
    /\ UNCHANGED <<nextPortFile, fs, renderCalls>>
    /\ RaceUnchanged

\* initCmd.RunE up to the record of the auth port: createSharedPkg and,
\* unless services/auth-service exists, createAuthMicroservice
ConcInitScaffold(p) ==
    /\ procs[p].pc = "idle"
    /\ \E shared \in {createSharedPkg(fs, NoFault)} :
       \E a \in {IF ServiceExists(shared.fs, authServiceName)
                 THEN [err |-> "", fs |-> shared.fs, valid |-> TRUE]
                 ELSE [f \in {"err", "fs", "valid"} |->
                          createAuthMicroservice(shared.fs, authServiceName,
                                                 Itoa(authServicePort),
                                                 NoFault)[f]]} :
          /\ a.valid
          /\ fs' = a.fs
          /\ procs' = [procs EXCEPT ![p] =
                          IF a.err # ""
                          THEN [@ EXCEPT !.pc = "done", !.name = authServiceName,
                                         !.err = a.err]
                          ELSE [@ EXCEPT !.pc = "initRecordRead",
                                         !.name = authServiceName,
                                         !.port = authServicePort]]
    /\ UNCHANGED <<usedPortsFile, nextPortFile, renderCalls>>
    /\ RaceUnchanged

ConcInitRecordRead(p) ==
    /\ procs[p].pc = "initRecordRead"
    /\ procs' = [procs EXCEPT ![p] =
                    ConcLoadForRecord(procs[p], usedPortsFile, "initRecordWrite",
                                      "initReadCursor")]
    /\ UNCHANGED <<usedPortsFile, nextPortFile, fs, renderCalls>>
    /\ RaceUnchanged

ConcInitRecordWrite(p) ==
    /\ procs[p].pc = "initRecordWrite"
    /\ usedPortsFile' = RaceRecord(procs[p].used, procs[p].port, procs[p].name,
                                   usedPortsFile)
    /\ procs' = [procs EXCEPT ![p] = [@ EXCEPT !.pc = "initReadCursor"]]
    /\ UNCHANGED <<nextPortFile, fs, renderCalls>>
    /\ RaceUnchanged

\* os.ReadFile(nextAvailablePortFile) and strconv.Atoi in initCmd.RunE
ConcInitReadCursor(p) ==
    /\ procs[p].pc = "initReadCursor"
    /\ \E n \in {Atoi(nextPortFile.text)} :
          procs' = [procs EXCEPT ![p] =
                      [@ EXCEPT !.pc = "initWriteCursor",
                                !.nextPort = IF nextPortFile.exists /\ n.ok
                                             THEN n.val ELSE initBasePort]]
    /\ UNCHANGED <<usedPortsFile, nextPortFile, fs, renderCalls>>
    /\ RaceUnchanged

\* if currentNextPort <= 8080 { os.WriteFile(..., "8081") }
ConcInitWriteCursor(p) ==
    /\ procs[p].pc = "initWriteCursor"
    /\ nextPortFile' = IF procs[p].nextPort <= initBasePort
                       THEN [exists |-> TRUE, text |-> Itoa(initNextPort)]
                       ELSE nextPortFile
    /\ procs' = [procs EXCEPT ![p] = [@ EXCEPT !.pc = "done"]]
    /\ UNCHANGED <<usedPortsFile, fs, renderCalls>>
    /\ RaceUnchanged

NextConc == \E p \in Procs :
               \/ \E name \in RaceNames : RaceStart(p, name)
               \/ \E name \in RaceNames, port \in ConcPorts :
                     ConcStartExplicit(p, name, port)
               \/ ConcInitScaffold(p)
               \/ RaceReadCursor(p)
               \/ RaceReadUsedPorts(p)
               \/ RaceScan(p)
               \/ RaceWriteUsedPorts(p)
               \/ RaceWriteCursor(p)
               \/ ConcConflictCheck(p)
               \/ ConcProbe(p)
               \/ ConcRecordRead(p)
               \/ ConcRecordWrite(p)
               \/ ConcInitRecordRead(p)
               \/ ConcInitRecordWrite(p)
               \/ ConcInitReadCursor(p)
               \/ ConcInitWriteCursor(p)
               \/ RaceRender(p)

SpecConc == InitConc /\ [][NextConc]_vars

(***************************************************************************)
(* Properties.                                                             *)
(***************************************************************************)
\* the allocations a load of used_ports.json yields
Registry == ReadUsedPorts(usedPortsFile).Ports

RegistryPorts == {Registry[i].Port : i \in 1..Len(Registry)}

\* a step that is an invocation of the tool (and not a change on the OS side)
InvocationStep == UNCHANGED listening

IsPrefix(a, b) == Len(a) <= Len(b) /\ SubSeq(b, 1, Len(a)) = a

\* C1: used_ports.json never holds two allocations with the same port,
\* after any sequence of init and generate runs from the empty directory,
\* successful or failed.
C1_UniquePorts ==
    \A i, j \in 1..Len(usedPortsFile.used_ports) :
        i # j => usedPortsFile.used_ports[i].port # usedPortsFile.used_ports[j].port

\* C1 witness: a registry of three allocations on which init has run again
C1_Witness ==
    /\ Len(usedPortsFile.used_ports) >= 3
    /\ last.cmd = "init" /\ last.err = ""

\* C2: no two services are rendered with the same port: the ports handed to
\* the renderer for different service names differ.
C2_DistinctRenderedPorts ==
    \A a, b \in renderCalls : a.Name # b.Name => a.Port # b.Port

\* C2 witness: three services have been handed to the renderer
C2_Witness == Cardinality({c.Name : c \in renderCalls}) >= 3

\* a generate run in auto-assign mode whose port resolution returned a port
AutoReturned(l) == l.cmd = "generate" /\ l.name # "" /\ ~l.explicit /\ l.port # 0

\* C3: auto-assignment never returns a port that is in the registry it
\* loaded, nor a port below 8080, whatever the cursor file holds.
C3_AutoAvoidsRegistryAndFloor ==
    [][(InvocationStep /\ AutoReturned(last'))
          => (last'.port \notin RegistryPorts /\ last'.port >= 8080)]_vars

\* C3 witness: a port was auto-assigned although the cursor was below 8080
\* or did not parse
C3_Witness ==
    /\ AutoReturned(last)
    /\ last.port = 8080
    /\ Len(Registry) = 1

\* the cursor as the claim reads it: the integer in the file, 8080 when
\* there is none
CursorOr8080(file) ==
    IF file.exists /\ Atoi(file.text).ok THEN Atoi(file.text).val ELSE 8080

Max(a, b) == IF a >= b THEN a ELSE b

\* C4: auto-assignment for s returns the smallest c in max(cursor, 8080)..65535
\* that is neither registered nor occupied; the registry becomes the previous
\* one plus the single entry (c, s) and the cursor file holds c + 1; with
\* registry {8080, 8081} and cursor 8080 it returns 8082.
C4_AutoSmallestFree ==
    [][(InvocationStep /\ AutoReturned(last'))
          => LET c == last'.port
                 from == Max(CursorOr8080(nextPortFile), 8080)
             IN  /\ from <= c /\ c <= 65535
                 /\ c \notin RegistryPorts /\ c \notin listening
                 /\ \A q \in from..(c - 1) : q \in RegistryPorts \/ q \in listening
                 /\ Registry' = Append(Registry, PortInfo(c, last'.name))
                 /\ nextPortFile'.exists /\ nextPortFile'.text = Itoa(c + 1)
                 /\ (RegistryPorts = {8080, 8081} /\ from = 8080 /\ 8082 \notin listening)
                        => c = 8082]_vars

\* C4 witness: from registry {8080, 8081} and the stale cursor 8080 the scan
\* returned 8082
C4_Witness ==
    /\ AutoReturned(last)
    /\ last.port = 8082
    /\ RegistryPorts = {8080, 8081, 8082}
    /\ nextPortFile.text = Itoa(8083)

\* a port argument that is not an integer in 1024..65535
BadPortArg(a) == ~Atoi(a).ok \/ Atoi(a).val < 1024 \/ Atoi(a).val > 65535

\* C5: a generate request with an explicit port that is malformed or outside
\* 1024..65535 fails with InvalidPort and leaves registry, cursor file and
\* the services/ and pkg/ trees unchanged.
C5_InvalidPortTouchesNothing ==
    [][(/\ InvocationStep
        /\ last'.cmd = "generate" /\ last'.explicit
        /\ BadPortArg(last'.portArg))
          => /\ last'.err = "InvalidPort"
             /\ UNCHANGED <<usedPortsFile, nextPortFile, fs>>]_vars

\* C5 witness: an initialized project rejected an out-of-range port
C5_Witness ==
    /\ last.cmd = "generate" /\ last.err = "InvalidPort"
    /\ last.portArg = Itoa(65536)
    /\ usedPortsFile.exists

\* a generate request that gets as far as port resolution
ReachesResolution(l) ==
    /\ l.cmd = "generate" /\ l.name # ""
    /\ ~(l.explicit /\ BadPortArg(l.portArg))
    /\ usedPortsFile.exists
    /\ ~Exists(fs, <<"services", l.name>>)

\* C6: a generate request with an explicit port already in the registry,
\* whichever service owns it, fails and leaves registry, cursor and file tree
\* unchanged; a request that gets as far as port resolution fails with
\* PortConflict.
C6_ConflictTouchesNothing ==
    [][(/\ InvocationStep
        /\ last'.cmd = "generate" /\ last'.explicit
        /\ Atoi(last'.portArg).ok
        /\ Atoi(last'.portArg).val \in RegistryPorts)
          => /\ last'.err # ""
             /\ UNCHANGED <<usedPortsFile, nextPortFile, fs>>
             /\ ReachesResolution(last') => last'.err = "PortConflict"]_vars

\* C6 witness: a request for a new service was refused a registered port
C6_Witness ==
    /\ last.cmd = "generate" /\ last.err = "PortConflict"
    /\ ~Exists(fs, <<"services", last.name>>)
    /\ Atoi(last.portArg).val \in RegistryPorts

\* C7: a generate request with an explicit port that is not registered but
\* occupied at the OS level fails and records nothing (registry and file tree
\* unchanged), with PortUnavailable when it gets as far as port resolution;
\* an explicit-port run records (p, service) only when the probe found p free.
C7_OccupiedRecordsNothing ==
    [][(/\ InvocationStep
        /\ last'.cmd = "generate" /\ last'.explicit
        /\ Atoi(last'.portArg).ok)
          => LET p == Atoi(last'.portArg).val
             IN  /\ (p \notin RegistryPorts /\ p \in listening)
                       => /\ last'.err # ""
                          /\ UNCHANGED <<usedPortsFile, fs>>
                          /\ ReachesResolution(last') => last'.err = "PortUnavailable"
                 /\ (usedPortsFile' # usedPortsFile)
                       => /\ p \notin listening /\ p \in last'.probed
                          /\ Registry' = Append(Registry, PortInfo(p, last'.name))]_vars

\* C7 witness: an unregistered port was refused because a listener held it
C7_Witness ==
    /\ last.cmd = "generate" /\ last.err = "PortUnavailable"
    /\ last.probed = {Atoi(last.portArg).val}
    /\ Atoi(last.portArg).val \notin RegistryPorts

\* C8: generate for a service whose root services/<name> exists fails before
\* any port resolution, in explicit and in auto-assign mode: registry and
\* cursor are unchanged and no port is probed; in an initialized project the
\* error is ServiceAlreadyExists.
C8_ExistingServiceRejected ==
    [][(/\ InvocationStep
        /\ last'.cmd = "generate" /\ last'.name # ""
        /\ Exists(fs, <<"services", last'.name>>))
          => /\ last'.err # ""
             /\ UNCHANGED <<usedPortsFile, nextPortFile>>
             /\ last'.probed = {}
             /\ (usedPortsFile.exists /\ ~(last'.explicit /\ BadPortArg(last'.portArg)))
                    => last'.err = "ServiceAlreadyExists"]_vars

\* C8 witness: both modes were rejected for an existing service
C8_Witness ==
    /\ last.cmd = "generate" /\ last.err = "ServiceAlreadyExists"
    /\ last.explicit
    /\ last.name # authServiceName

\* C9: for every port p in the registry IsPortUsed holds, and recording p
\* again for any service name writes nothing: entries, owners and order stay.
C9_RecordIdempotent ==
    \A reg \in {Registry} : \A i \in 1..Len(reg) :
        /\ IsPortUsed(reg, reg[i].Port)
        /\ \A s \in Services :
              \A w \in {WriteUsedPortForService(reg[i].Port, s, usedPortsFile, NoFault)} :
                  w.err = "" /\ w.file = usedPortsFile

\* C9 witness: init recorded 8080 again on a registry that other services
\* have joined
C9_Witness ==
    /\ last.cmd = "init" /\ last.err = ""
    /\ Len(Registry) >= 2
    /\ Registry[1] = PortInfo(8080, authServiceName)

\* C10: the registry is append-only: every step keeps the allocations it
\* found, with their service names and in their order.
C10_AppendOnly ==
    [][usedPortsFile' # usedPortsFile => IsPrefix(Registry, Registry')]_vars

\* C10 witness: a generate run failed on a registry that had grown to three
\* allocations
C10_Witness ==
    /\ Len(Registry) >= 3
    /\ last.cmd = "generate" /\ last.err = "ServiceAlreadyExists"

\* the integer the cursor file holds; 0 when there is no readable cursor
CursorValue(file) ==
    IF file.exists /\ Atoi(file.text).ok THEN Atoi(file.text).val ELSE 0

\* the errors with which the scaffolder (folders, render loop, go.sum) ends
RenderErrors ==
    {StageError(st) : st \in TemplateStages} \cup {"DestinationWriteError"}

\* C11 (as stated): the cursor never decreases; after a successful
\* auto-assignment of c it holds c + 1; explicit-port allocations and failed
\* invocations leave it unchanged.
C11_CursorMonotone ==
    [][InvocationStep
          => /\ CursorValue(nextPortFile') >= CursorValue(nextPortFile)
             /\ (AutoReturned(last') /\ last'.err = "")
                    => nextPortFile'.text = Itoa(last'.port + 1)
             /\ (last'.cmd = "generate" /\ last'.explicit)
                    => UNCHANGED nextPortFile
             /\ last'.err # "" => UNCHANGED nextPortFile]_vars

\* C12 (as stated): the allocation is persisted only after the renderer has
\* executed the plan: a generate run whose rendering fails leaves the
\* registry without an allocation for that request.
C12_RecordAfterRender ==
    [][(/\ InvocationStep
        /\ last'.cmd = "generate"
        /\ last'.err \in RenderErrors)
          => Registry' = Registry]_vars

\* a service root left without its go.sum, the last file of a scaffold, in
\* an initialized project (a generate run renders only in one)
PartialScaffold(tree, name) ==
    /\ usedPortsFile.exists
    /\ Exists(tree, ServicePath(name))
    /\ ~Exists(tree, ServicePath(name) \o <<"go.sum">>)

\* a request the project accepts as far as its arguments go
WellFormedRequest(l) ==
    /\ l.cmd = "generate" /\ l.name # ""
    /\ ~(l.explicit /\ BadPortArg(l.portArg))

\* C13 (as stated): a generate run for a service whose earlier run left a
\* partial scaffold is not rejected for that scaffold: the existing
\* directories are tolerated and the run goes on to render.
C13_RerunResumes ==
    [][(/\ InvocationStep
        /\ WellFormedRequest(last')
        /\ PartialScaffold(fs, last'.name))
          => last'.err # "ServiceAlreadyExists"]_vars

\* C13 (amended): a generate run for a service whose earlier run left a
\* partial scaffold is rejected with ServiceAlreadyExists, and the scaffold,
\* the registry and the cursor stay as they are.
C13_RerunRejected ==
    [][(/\ InvocationStep
        /\ WellFormedRequest(last')
        /\ PartialScaffold(fs, last'.name))
          => /\ last'.err = "ServiceAlreadyExists"
             /\ UNCHANGED <<fs, usedPortsFile, nextPortFile>>]_vars

\* C13 witness: the request of a service whose rendering failed was repeated
\* on the partial scaffold, which has kept its own allocation
C13_Witness ==
    /\ last.cmd = "generate" /\ last.err = "ServiceAlreadyExists"
    /\ PartialScaffold(fs, last.name)
    /\ \E i \in 1..Len(Registry) : Registry[i].Service = last.name

\* the failure the environment chose made a plan entry fail before its
\* destination was written
RenderFailure(l) ==
    /\ l.flt.at \in {"render", "natural"}
    /\ l.flt.stage \in {"read", "parse", "create"}

PlanOf(l) == IF l.cmd = "init" THEN AuthPlan(l.name) ELSE DefaultPlan(l.name)

\* C14: when a plan entry fails at reading or parsing its template or at
\* creating its destination, the entries rendered before it are on disk in
\* full, no other entry of the plan (the failing one included) has been
\* written, go.sum has not been created, and the invocation ends with the
\* error of that failure.
C14_FailFast ==
    [][(InvocationStep /\ RenderFailure(last'))
          => \E plan \in {PlanOf(last')} :
                /\ last'.err = StageError(last'.flt.stage)
                /\ \A t \in last'.flt.written :
                      /\ plan[t] \in DOMAIN fs'.files
                      /\ fs'.files[plan[t]].complete
                      /\ fs'.files[plan[t]].Name = last'.name
                /\ \A t \in DOMAIN plan \ last'.flt.written :
                      /\ plan[t] \in DOMAIN fs'.files => plan[t] \in DOMAIN fs.files
                      /\ plan[t] \in DOMAIN fs.files
                            => fs'.files[plan[t]] = fs.files[plan[t]]
                /\ ~Exists(fs', ServicePath(last'.name) \o <<"go.sum">>)]_vars

\* a generate run stopped at the second entry it rendered
C14_Witness ==
    /\ last.cmd = "generate"
    /\ RenderFailure(last)
    /\ last.flt.written # {}
    /\ last.err = "TemplateSyntaxError"
    /\ \A t \in last.flt.written : DefaultPlan(last.name)[t] \in DOMAIN fs.files

\* the artifacts createSharedPkg provides: pkg/, pkg/entities, the database
\* stub and the middleware stub
SharedArtifacts == {SharedSteps[k].path : k \in {1, 4, 7, 10}}

\* C15 (as stated): a generate run that renders its plan has run the shared
\* package initializer first, so pkg/, pkg/entities, the database stub and
\* the middleware stub exist once the run has rendered.
C15_SharedBeforeRender ==
    [][(InvocationStep /\ last'.cmd = "generate" /\ renderCalls' # renderCalls)
          => \A p \in SharedArtifacts : Exists(fs', p)]_vars

SharedPaths == {SharedSteps[k].path : k \in 1..Len(SharedSteps)}

\* the part of a tree createSharedPkg is responsible for
SharedPart(tree) ==
    [dirs |-> tree.dirs \cap SharedPaths,
     files |-> [p \in DOMAIN tree.files \cap SharedPaths |-> tree.files[p]]]

\* C16: createSharedPkg run on the tree it has just completed returns no
\* error and changes nothing, and an init run never modifies a shared file
\* or directory that existed before it; once every shared artifact exists
\* the run leaves the whole shared part as it was.
C16_SharedPkgIdempotent ==
    [][(InvocationStep /\ last'.cmd = "init")
          => /\ \A p \in SharedPaths :
                   /\ p \in fs.dirs => p \in fs'.dirs
                   /\ p \in DOMAIN fs.files
                        => p \in DOMAIN fs'.files /\ fs'.files[p] = fs.files[p]
             /\ (\A p \in SharedPaths : Exists(fs, p))
                   => SharedPart(fs') = SharedPart(fs)
             /\ \E once \in {createSharedPkg(fs, NoFault)} :
                   \E twice \in {createSharedPkg(once.fs, NoFault)} :
                      /\ once.err = "" /\ twice.err = ""
                      /\ twice.fs = once.fs]_vars

\* a successful init over a shared package an earlier, failed run left with
\* a half-written stub
C16_Witness ==
    /\ last.cmd = "init"
    /\ last.err = ""
    /\ \A p \in SharedPaths : Exists(fs, p)
    /\ \E p \in SharedPaths : p \in DOMAIN fs.files /\ ~fs.files[p].complete

\* both processes worked on the same snapshot and have both replaced the
\* registry, p after q
LostUpdate(p, q) ==
    /\ procs[p].order = 2
    /\ procs[q].order = 1
    /\ procs[p].used = procs[q].used

\* C17: when two auto-assigning generate runs have loaded the same registry
\* snapshot, they select the same port, and once both have written, the
\* registry is that snapshot plus the allocation of the later writer alone;
\* the run whose allocation was lost ends without an error.
C17_LastWriterWins ==
    \A p, q \in Procs :
        /\ (/\ p # q
            /\ procs[p].used = procs[q].used
            /\ procs[p].port # 0 /\ procs[q].port # 0)
              => procs[p].port = procs[q].port
        /\ LostUpdate(p, q)
              => /\ Registry = Append(procs[p].used,
                                      PortInfo(procs[p].port, procs[p].name))
                 /\ procs[q].err = ""

\* both runs have ended without an error, on the same port, and the registry
\* has no allocation for the service of the earlier writer
C17_Witness ==
    \E p, q \in Procs :
        /\ LostUpdate(p, q)
        /\ procs[p].pc = "done" /\ procs[q].pc = "done"
        /\ procs[p].err = "" /\ procs[q].err = ""
        /\ procs[p].port = procs[q].port
        /\ procs[p].name # procs[q].name
        /\ Len(Registry) = Len(procs[q].used) + 1
        /\ \A i \in 1..Len(Registry) : Registry[i].Service # procs[q].name
        /\ ServiceExists(fs, procs[q].name)

Malformed(file) == file.exists /\ ~file.wellFormed

\* C18 (as stated): loading a missing used_ports.json yields the empty
\* registry and no error, loading a malformed one fails with CorruptState and
\* yields no registry, and an invocation that runs on a malformed
\* used_ports.json leaves the registry, the cursor and the file tree as they
\* were.
C18_LoadOutcomes ==
    [][InvocationStep
          => /\ ~usedPortsFile.exists
                   => ReadUsedPorts(usedPortsFile) = [err |-> "", Ports |-> <<>>]
             /\ Malformed(usedPortsFile)
                   => /\ ReadUsedPorts(usedPortsFile).err = "CorruptState"
                      /\ ReadUsedPorts(usedPortsFile).Ports = <<>>
                      /\ UNCHANGED <<usedPortsFile, nextPortFile, fs>>]_vars

\* the cursor file is there and strconv.Atoi rejects its content
UnparseableCursor(file) == file.exists /\ ~Atoi(file.text).ok

\* a generate request without a port that gets as far as the auto-assignment
\* and finds a cursor file that does not parse
AutoOnBadCursor(l) ==
    /\ ReachesResolution(l)
    /\ ~l.explicit
    /\ UnparseableCursor(nextPortFile)

\* C19 (as stated): an auto-assignment that finds a cursor file which does not
\* parse as an integer fails with CorruptState and records no port.
C19_BadCursorFails ==
    [][(InvocationStep /\ AutoOnBadCursor(last'))
          => /\ last'.err = "CorruptState"
             /\ UNCHANGED usedPortsFile]_vars

\* C19 (amended): an auto-assignment that finds a cursor file which does not
\* parse as an integer ignores it: over a well-formed registry the scan
\* starts at 8080, the smallest port from 8080 on that is neither registered
\* nor occupied is recorded for the service, the cursor file is rewritten to
\* that port + 1 and no CorruptState is reported.
C19_BadCursorIgnored ==
    [][(InvocationStep /\ AutoOnBadCursor(last') /\ ~Malformed(usedPortsFile))
          => \E c \in {last'.port} :
                /\ last'.err = ""
                /\ c >= 8080 /\ c <= 65535
                /\ c \notin RegistryPorts /\ c \notin listening
                /\ \A q \in 8080..(c - 1) : q \in RegistryPorts \/ q \in listening
                /\ Registry' = Append(Registry, PortInfo(c, last'.name))
                /\ nextPortFile' = [exists |-> TRUE, text |-> Itoa(c + 1)]]_vars

\* a port was assigned by a run that found the cursor file "8081\n"
C19_Witness ==
    /\ AutoReturned(last)
    /\ last.err = ""
    /\ UnparseableCursor(last.cursor)
    /\ last.port = 8080
    /\ nextPortFile.text = Itoa(8081)
    /\ \E i \in 1..Len(Registry) : Registry[i] = PortInfo(8080, last.name)

\* no candidate from max(cursor, 8080) up to 65535 is free
Exhausted ==
    \A q \in Max(CursorOr8080(nextPortFile), 8080)..65535 :
        q \in RegistryPorts \/ q \in listening

\* C20: when every candidate from max(cursor, 8080) up to 65535 is registered
\* or occupied, a cursor above 65535 included, a generate request without a
\* port that gets as far as the auto-assignment over a well-formed registry
\* fails with PortSpaceExhausted and leaves registry, cursor and file tree
\* as they were.
C20_ExhaustedTouchesNothing ==
    [][(/\ InvocationStep
        /\ ReachesResolution(last') /\ ~last'.explicit
        /\ ~Malformed(usedPortsFile)
        /\ Exhausted)
          => /\ last'.err = "PortSpaceExhausted"
             /\ UNCHANGED <<usedPortsFile, nextPortFile, fs>>]_vars

\* the scan started at the cursor 65535, found 65535 registered and gave up
C20_Witness ==
    /\ last.cmd = "generate" /\ ~last.explicit
    /\ last.err = "PortSpaceExhausted"
    /\ last.cursor = [exists |-> TRUE, text |-> Itoa(65535)]
    /\ nextPortFile = last.cursor
    /\ 65535 \in RegistryPorts
    /\ ~ServiceExists(fs, last.name)

AllocationSet(ports) == {ports[i] : i \in 1..Len(ports)}

\* C21: loading the file WriteUsedPorts has written yields, without an
\* error, the same set of (port, service) allocations as the registry that
\* was persisted, the empty registry included.
C21_RoundTrip ==
    [][(procs'[2] # procs[2] /\ procs[1].pc = "saved")
          => /\ procs'[2].err = ""
             /\ AllocationSet(procs'[2].used) = AllocationSet(procs[1].used)]_vars

\* a registry of two allocations, one on port 65535, was persisted and loaded
C21_Witness ==
    /\ procs[1].pc = "saved"
    /\ procs[2].pc = "loaded"
    /\ Len(procs[1].used) = 2
    /\ procs[1].used[1].Port = 65535
    /\ procs[1].used[2].Port = 80
    /\ procs[2].used = procs[1].used
    /\ ReadUsedPorts(usedPortsFile).Ports = procs[1].used

\* the entries an invocation has added to the registry
Added == {Registry'[i] : i \in (Len(Registry) + 1)..Len(Registry')}

\* C22: the registry is consulted before the listener probe.  A generate
\* request with an explicit port that is registered and occupied fails with
\* PortConflict without a bind attempt; no invocation, explicit or
\* auto-assigning, attempts a bind on a registered port; and no invocation
\* records a port that is already registered, whether or not a listener
\* holds it.
C22_RegistryBeforeProbe ==
    [][InvocationStep
          => /\ (/\ ReachesResolution(last') /\ last'.explicit
                 /\ Atoi(last'.portArg).val \in RegistryPorts
                 /\ Atoi(last'.portArg).val \in listening)
                   => last'.err = "PortConflict"
             /\ last'.probed \cap RegistryPorts = {}
             /\ usedPortsFile' # usedPortsFile
                   => \A a \in Added : a.Port \notin RegistryPorts]_vars

\* an explicit request for a port that is registered and held by a listener
\* ended with PortConflict and without a bind attempt
C22_Witness ==
    /\ last.cmd = "generate" /\ last.explicit
    /\ last.err = "PortConflict"
    /\ Atoi(last.portArg).val \in RegistryPorts
    /\ Atoi(last.portArg).val \in listening
    /\ last.probed = {}

\* a generate run with a port argument that ended without an error
ExplicitSucceeded(l) == l.cmd = "generate" /\ l.explicit /\ l.err = ""

\* C23: a successful generate request for service s with the explicit port p
\* uses p: the registry becomes the previous one plus the single entry
\* (p, s), p is the only port on which a bind is attempted, and the cursor
\* file is left as it was.
C23_ExplicitExactlyP ==
    [][(InvocationStep /\ ExplicitSucceeded(last'))
          => \E p \in {Atoi(last'.portArg).val} :
                /\ last'.port = p
                /\ Registry' = Append(Registry, PortInfo(p, last'.name))
                /\ last'.probed = {p}
                /\ UNCHANGED nextPortFile]_vars

\* port 65535 was recorded on request while the cursor still reads 8081
C23_Witness ==
    /\ ExplicitSucceeded(last)
    /\ last.port = 65535
    /\ Registry[Len(Registry)] = PortInfo(65535, last.name)
    /\ nextPortFile.text = Itoa(8081)
    /\ last.cursor = nextPortFile

\* a generate request for svc-a without a port, met by a registry that loads
\* as empty, no cursor file and no listener on 8080
FirstAutoRequest(l) ==
    /\ l.cmd = "generate" /\ l.name = "svc-a" /\ ~l.explicit
    /\ ReadUsedPorts(usedPortsFile) = [err |-> "", Ports |-> <<>>]
    /\ ~nextPortFile.exists
    /\ 8080 \notin listening

FirstAutoOutcome(l) ==
    /\ l.err = ""
    /\ l.port = 8080
    /\ Registry' = <<PortInfo(8080, "svc-a")>>
    /\ nextPortFile' = [exists |-> TRUE, text |-> Itoa(8081)]

\* C24 (as stated): with an empty registry, the registry of a directory
\* without used_ports.json included, and no cursor file, generate svc-a
\* without a port returns 8080, the registry then holds exactly
\* (8080, svc-a) and the cursor file holds 8081.
C24_FirstAutoFromEmpty ==
    [][(InvocationStep /\ FirstAutoRequest(last')) => FirstAutoOutcome(last')]_vars

\* C24 (amended): the same with a used_ports.json that exists and holds the
\* empty registry.
C24_FirstAutoFromEmptyFile ==
    [][(InvocationStep /\ FirstAutoRequest(last') /\ usedPortsFile.exists)
          => FirstAutoOutcome(last')]_vars

\* svc-a was given 8080 by a run that found no cursor file
C24_Witness ==
    /\ AutoReturned(last)
    /\ last.name = "svc-a"
    /\ last.err = ""
    /\ last.port = 8080
    /\ ~last.cursor.exists
    /\ Registry = <<PortInfo(8080, "svc-a")>>
    /\ nextPortFile = [exists |-> TRUE, text |-> Itoa(8081)]
    /\ ServiceExists(fs, "svc-a")

\* the resources of the default template set
DefaultResources ==
    {"main.tmpl", "router.tmpl", "controller.tmpl", "service.tmpl",
     "go.mod.tmpl", "Dockerfile.tmpl", "entity_pkg.tmpl"}

\* C25: the plan a successful generate run for n has rendered maps each of
\* the seven resources of the default set to one destination: the entity to
\* pkg/entities/n.entity.go, every other resource to a path below
\* services/n, no two resources to the same destination; the files the run
\* created are these destinations (and go.sum), each rendered from its own
\* resource.
C25_DefaultPlanTotal ==
    [][(InvocationStep /\ last'.cmd = "generate" /\ last'.err = "")
          => \E plan \in {DefaultPlan(last'.name)} :
             \E root \in {ServicePath(last'.name)} :
                /\ DOMAIN plan = DefaultResources
                /\ plan["entity_pkg.tmpl"]
                      = <<"pkg", "entities", last'.name \o ".entity.go">>
                /\ \A t \in DefaultResources \ {"entity_pkg.tmpl"} :
                      IsPrefix(root, plan[t]) /\ Len(plan[t]) > Len(root)
                /\ \A t, u \in DefaultResources : t # u => plan[t] # plan[u]
                /\ DOMAIN fs'.files \ DOMAIN fs.files
                      = {plan[t] : t \in DefaultResources}
                            \cup {root \o <<"go.sum">>}
                /\ \A t \in DefaultResources :
                      fs'.files[plan[t]].tmpl = DefaultTemplatePath("templates/", t)]_vars

\* svc-a has been generated: its entity is in pkg/entities, its main.go below
\* services/svc-a
C25_Witness ==
    /\ last.cmd = "generate" /\ last.err = "" /\ last.name = "svc-a"
    /\ <<"pkg", "entities", "svc-a.entity.go">> \in DOMAIN fs.files
    /\ <<"services", "svc-a", "cmd", "main.go">> \in DOMAIN fs.files
    /\ <<"services", "svc-a", "Dockerfile">> \in DOMAIN fs.files

NoRepeat(seq) == \A i, j \in 1..Len(seq) : i # j => seq[i] # seq[j]

\* the largest number of candidates a scan from start can examine
ScanBudget(start) == IF start > 65535 THEN 0 ELSE 65535 - start + 1

\* C26: an auto-assigning run ends, in success or in an error: the scan
\* never returns to a candidate, binds at most once per candidate, has
\* examined at most 65535 - max(cursor, 8080) + 1 candidates, and a run
\* that has started reaches its end.
C26_ScanTerminates ==
    /\ [](\A p \in Procs :
            /\ NoRepeat(procs[p].probes)
            /\ Len(procs[p].probes) <= procs[p].examined
            /\ procs[p].examined <= ScanBudget(procs[p].nextPort)
            /\ procs[p].pc = "scan"
                  => procs[p].nextPort
                        = Max(CursorOr8080(nextPortFile), 8080))
    /\ [][\A p \in Procs : procs'[p].port >= procs[p].port]_vars
    /\ \A p \in Procs : (procs[p].pc # "idle") ~> (procs[p].pc = "done")

\* a scan from 65533 went over three candidates, one registered and one
\* occupied, and the run ended with 65535
C26_Witness ==
    /\ procs[1].pc = "done"
    /\ procs[1].err = ""
    /\ procs[1].nextPort = 65533
    /\ procs[1].examined = 3
    /\ procs[1].probes = <<65533, 65535>>
    /\ nextPortFile.text = Itoa(65536)

\* C27: without used_ports.json a well-formed generate request and a
\* list-services request fail with NotInitialized, whether or not the
\* service directory exists and before any port is looked up or probed;
\* registry, cursor and file tree stay as they were.
C27_RequiresInit ==
    [][(/\ InvocationStep
        /\ ~usedPortsFile.exists
        /\ WellFormedRequest(last') \/ last'.cmd = "list-services")
          => /\ last'.err = "NotInitialized"
             /\ last'.port = 0 /\ last'.probed = {}
             /\ UNCHANGED <<usedPortsFile, nextPortFile, fs>>]_vars

\* generate was refused for a missing used_ports.json although the directory
\* of the service is there, left by an init that failed
C27_Witness ==
    /\ last.cmd = "generate"
    /\ last.err = "NotInitialized"
    /\ ~usedPortsFile.exists
    /\ ServiceExists(fs, last.name)

\* the working directory before anything was run in it
EmptyDirectory ==
    /\ ~usedPortsFile.exists /\ ~nextPortFile.exists /\ fs = EmptyFS

\* auth-service holds 8080 and the cursor is above 8080: the state every
\* successful init leaves
Initialized(file, cursor) ==
    /\ \E ports \in {ReadUsedPorts(file).Ports} :
          \E i \in 1..Len(ports) : ports[i].Port = 8080
    /\ CursorValue(cursor) > 8080

InitSucceeded(l) == l.cmd = "init" /\ l.err = ""

\* C28: a successful init in the empty working directory leaves the registry
\* <<(8080, auth-service)>> and the cursor 8081.  Every successful init leaves
\* 8080 registered and the cursor above 8080, no later invocation undoes
\* that, and a successful init that finds it so changes neither file; no
\* init changes a cursor that is above 8080.
C28_InitIdempotent ==
    [][InvocationStep
          => /\ (InitSucceeded(last') /\ EmptyDirectory)
                   => /\ Registry' = <<PortInfo(8080, authServiceName)>>
                      /\ nextPortFile' = [exists |-> TRUE, text |-> Itoa(8081)]
             /\ InitSucceeded(last') => Initialized(usedPortsFile', nextPortFile')
             /\ Initialized(usedPortsFile, nextPortFile)
                   => /\ Initialized(usedPortsFile', nextPortFile')
                      /\ InitSucceeded(last')
                            => UNCHANGED <<usedPortsFile, nextPortFile>>
             /\ (last'.cmd = "init" /\ CursorValue(nextPortFile) > 8080)
                   => UNCHANGED nextPortFile]_vars

\* init succeeded again after a service had been generated and left the two
\* allocations and the cursor 8082 as they were
C28_Witness ==
    /\ InitSucceeded(last)
    /\ Len(Registry) = 2
    /\ Registry[1] = PortInfo(8080, authServiceName)
    /\ last.cursor = [exists |-> TRUE, text |-> Itoa(8082)]
    /\ nextPortFile = last.cursor

\* C29 (as stated): once init has reported success, every destination of the
\* auth plan (the entity file included) and go.sum exist, written in full
\* for auth-service.
C29_AuthScaffoldComplete ==
    InitSucceeded(last)
      => \E plan \in {AuthPlan(authServiceName)} :
            /\ \A t \in DOMAIN plan :
                  /\ plan[t] \in DOMAIN fs.files
                  /\ fs.files[plan[t]].complete
            /\ Exists(fs, ServicePath(authServiceName) \o <<"go.sum">>)

\* the positions of the registry whose allocation names service n
AllocationsOf(reg, n) == {i \in 1..Len(reg) : reg[i].Service = n}

\* C30 (as stated): when a generate run for s reports success with port p,
\* every destination of the default plan for s exists, rendered in full with
\* Name s and Port p, the registry holds exactly one allocation for s, and
\* the port of that allocation is p.
C30_SuccessPostcondition ==
    [][(InvocationStep /\ last'.cmd = "generate" /\ last'.err = "")
          => \E plan \in {DefaultPlan(last'.name)} :
             \E owned \in {AllocationsOf(Registry', last'.name)} :
                /\ \A t \in DOMAIN plan :
                      /\ plan[t] \in DOMAIN fs'.files
                      /\ fs'.files[plan[t]].complete
                      /\ fs'.files[plan[t]].Name = last'.name
                      /\ fs'.files[plan[t]].Port = Itoa(last'.port)
                /\ Cardinality(owned) = 1
                /\ \A i \in owned : Registry'[i].Port = last'.port]_vars

\* C31: every allocation an invocation adds to the registry has a port in
\* 1024..65535, one added by auto-assignment a port in 8080..65535, and a
\* cursor file the invocation writes holds an integer no greater than 65536.
C31_PortRanges ==
    [][InvocationStep
          => /\ \A a \in Added :
                  /\ a.Port \in minUserPort..maxPort
                  /\ (last'.cmd = "generate" /\ ~last'.explicit)
                        => a.Port \in startPort..maxPort
             /\ nextPortFile' # nextPortFile
                  => /\ Atoi(nextPortFile'.text).ok
                     /\ Atoi(nextPortFile'.text).val <= maxPort + 1]_vars

\* auto-assignment recorded the last port of the range and wrote 65536 to
\* the cursor file
C31_Witness ==
    /\ AutoReturned(last) /\ last.err = ""
    /\ last.port = 65535
    /\ Registry[Len(Registry)] = PortInfo(65535, last.name)
    /\ nextPortFile = [exists |-> TRUE, text |-> Itoa(65536)]
    /\ last.cursor # nextPortFile

\* the destination of the entity resource of the default plan
EntityPath(n) == DefaultPlan(n)["entity_pkg.tmpl"]

\* C32 (as stated): no generate run fails at creating a destination whose
\* parent directory is missing; a run that has resolved its port and meets
\* no other failure writes every destination of its plan, the entity file
\* also when pkg/entities did not exist, over whatever the destination held.
C32_ParentsEnsured ==
    [][(InvocationStep /\ last'.cmd = "generate")
          => /\ last'.flt.at # "natural"
             /\ (last'.port # 0 /\ last'.flt.at \in {"none", "natural"})
                   => \E plan \in {DefaultPlan(last'.name)} :
                         \A t \in DOMAIN plan :
                            /\ plan[t] \in DOMAIN fs'.files
                            /\ fs'.files[plan[t]]
                                  = Rendered(DefaultTemplatePath("templates/", t),
                                             last'.name, Itoa(last'.port))]_vars

\* C33: while init and generate invocations interleave their file
\* operations, used_ports.json never lists a port twice.
C33_UniquePortsConcurrent ==
    Cardinality(RegistryPorts) = Len(Registry)

\* two generate runs for different services, one of them with a port
\* argument, have both ended without an error and the file holds a single
\* allocation besides the one of auth-service
C33_Witness ==
    /\ \A p \in Procs : procs[p].pc = "done" /\ procs[p].err = ""
    /\ \A p \in Procs : procs[p].name # authServiceName
    /\ procs[1].name # procs[2].name
    /\ \E p \in Procs : procs[p].order = 0
    /\ Len(Registry) = 2

\* the services to which the registry reg attributes port q
OwnersOf(reg, q) == {reg[i].Service : i \in {j \in 1..Len(reg) : reg[j].Port = q}}

\* process p is a generate run whose record step found its port allocated
SkippedRecord(p) ==
    /\ procs[p].name \in RaceNames
    /\ IsPortUsed(procs[p].used, procs[p].port)

\* C34: a generate run for s with the explicit port q has passed the
\* conflict check and the probe.  If by its record step another run has
\* registered q for another service, the record step writes nothing and
\* reports no error, and the run goes on to render s with port q and ends
\* without an error, while the registry attributes q to the other service
\* and holds no allocation for s.
C34_SecondReadSkipsRecord ==
    [][\A p \in Procs :
          /\ (/\ procs[p].pc = "recordRead" /\ procs'[p] # procs[p]
              /\ OwnersOf(Registry, procs[p].port) # {}
              /\ procs[p].name \notin OwnersOf(Registry, procs[p].port))
                => /\ procs'[p].pc = "render" /\ procs'[p].err = ""
                   /\ UNCHANGED usedPortsFile
          /\ (/\ procs[p].pc = "render" /\ procs'[p] # procs[p]
              /\ SkippedRecord(p)
              /\ procs[p].name \notin OwnersOf(Registry, procs[p].port))
                => /\ procs'[p].pc = "done" /\ procs'[p].err = ""
                   /\ [Name |-> procs[p].name, Port |-> Itoa(procs[p].port)]
                         \in renderCalls'
                   /\ \A t \in DOMAIN DefaultPlan(procs[p].name) :
                         fs'.files[DefaultPlan(procs[p].name)[t]].Port
                            = Itoa(procs[p].port)
                   /\ OwnersOf(Registry', procs[p].port) # {}
                   /\ AllocationsOf(Registry', procs[p].name) = {}]_vars

\* svc-a was generated on port 8081 by a run that recorded nothing; the
\* registry gives 8081 to svc-b
C34_Witness ==
    \E p \in Procs :
        /\ procs[p].pc = "done" /\ procs[p].err = ""
        /\ procs[p].name = "svc-a" /\ procs[p].port = 8081
        /\ SkippedRecord(p)
        /\ ServiceExists(fs, "svc-a")
        /\ OwnersOf(Registry, 8081) = {"svc-b"}
        /\ AllocationsOf(Registry, "svc-a") = {}

\* a generate run without a port argument
AutoRun(l) == l.cmd = "generate" /\ l.name # "" /\ ~l.explicit

\* what every invocation keeps and every auto-assignment that returns a
\* port does: the cursor does not decrease; the port returned is at least
\* the cursor the run found, is not registered, and the cursor becomes the
\* port plus one.  Successive returned ports are therefore strictly
\* increasing and a port an earlier scan passed over is below every later
\* one.
AutoAdvances ==
    /\ CursorValue(nextPortFile') >= CursorValue(nextPortFile)
    /\ AutoReturned(last')
          => /\ last'.port >= CursorValue(nextPortFile)
             /\ last'.port \notin RegistryPorts
             /\ CursorValue(nextPortFile') = last'.port + 1

CursorWriteFailed(l) == AutoRun(l) /\ l.flt.at = "cursorwrite"

\* C36: an auto-assignment in which the write of the cursor file fails ends
\* with an error and leaves the file tree and the cursor file as they were,
\* but the registry one allocation longer, for the service of the request
\* and a port at or above the stale cursor.  Every auto-assignment after
\* the failure keeps the registry's entries and returns a port that is not
\* among them.
C36_RegistryBeforeCursor ==
    [][InvocationStep
          => /\ CursorWriteFailed(last')
                  => /\ last'.err = "WriteError" /\ last'.port = 0
                     /\ UNCHANGED <<fs, nextPortFile>>
                     /\ \E c \in Max(CursorValue(nextPortFile), startPort)..maxPort :
                           Registry' = Append(Registry, PortInfo(c, last'.name))
             /\ (faulted /\ AutoReturned(last'))
                  => /\ last'.port \notin RegistryPorts
                     /\ IsPrefix(Registry, Registry')]_vars

\* the cursor write of a run for svc-a failed: (8081, svc-a) is recorded,
\* the cursor still reads 8081 and services/svc-a was not created
C36_Witness ==
    /\ CursorWriteFailed(last) /\ last.err = "WriteError"
    /\ last.name = "svc-a"
    /\ Registry[Len(Registry)] = PortInfo(8081, "svc-a")
    /\ nextPortFile = [exists |-> TRUE, text |-> Itoa(8081)]
    /\ ~ServiceExists(fs, "svc-a")

\* path is services/n or lies below it
InServiceTree(path, n) == IsPrefix(ServicePath(n), path)

\* where a generate run for n may write
OwnPath(path, n) ==
    InServiceTree(path, n) \/ path = <<"pkg", "entities", n \o ".entity.go">>

\* C37: a generate run for s, whether it succeeds or fails, creates and
\* changes files only below services/s and at pkg/entities/s.entity.go and
\* creates directories only at services and below services/s: every other
\* file, the files of other services and the stubs below pkg included, and
\* every directory is kept as it was; the registry keeps its entries in
\* place and gains entries for s only.
C37_GenerateFrame ==
    [][(InvocationStep /\ last'.cmd = "generate" /\ last'.name # "")
          => \E s \in {last'.name} :
                /\ \A path \in DOMAIN fs.files :
                      /\ path \in DOMAIN fs'.files
                      /\ OwnPath(path, s) \/ fs'.files[path] = fs.files[path]
                /\ \A path \in DOMAIN fs'.files \ DOMAIN fs.files : OwnPath(path, s)
                /\ fs.dirs \subseteq fs'.dirs
                /\ \A dir \in fs'.dirs \ fs.dirs :
                      InServiceTree(dir, s) \/ dir = <<"services">>
                /\ IsPrefix(Registry, Registry')
                /\ \A a \in Added : a.Service = s]_vars

\* svc-b was generated next to svc-a, whose files carry another port
C37_Witness ==
    /\ last.cmd = "generate" /\ last.name = "svc-b" /\ last.err = ""
    /\ EntityPath("svc-a") \in DOMAIN fs.files
    /\ EntityPath("svc-b") \in DOMAIN fs.files
    /\ fs.files[EntityPath("svc-a")].Name = "svc-a"
    /\ fs.files[EntityPath("svc-a")].Port # Itoa(last.port)
    /\ \E i \in 1..Len(Registry) : Registry[i].Service = "svc-a"

====
